---- MODULE Spec2Model ----
(***************************************************************************)
(* Authentication / session core of the dioxus-template server crate:      *)
(* token codec (auth/jwt.rs), refresh-token table, session middleware      *)
(* (auth/middleware.rs), authorization extractors (auth/extractors.rs),    *)
(* the auth handlers of api.rs and rest.rs, and the OAuth state cache      *)
(* (auth/oauth_state.rs).                                                  *)
(*                                                                         *)
(* Option<T> is modelled as a set with at most one element: None == {},    *)
(* Some(x) == {x}.  Time is one clock counted in ticks of 1/TicksPerSec    *)
(* second, so that both whole-second arithmetic (timestamp(), as_secs())   *)
(* and sub-second instants are represented.                                *)
(***************************************************************************)
EXTENDS Integers, Sequences, FiniteSets, TLC

VARIABLES
    clock,           \* current time in ticks (Utc::now() / Instant::now())
    advances,        \* number of clock advances taken so far
    users,           \* table users: sequence of rows
    refresh_tokens,  \* table refresh_tokens: sequence of rows, id = index
    nextJti,         \* next fresh uuid for Claims.jti
    known,           \* token strings that have been delivered to some client
    req,             \* the in-flight requests, one record per request slot
    rotated,         \* history: refresh tokens a transparent refresh has replaced
    STATE_STORE,     \* oauth_state::STATE_STORE: set of [state, verifier, created_at]
    nextState,       \* next fresh CSRF state / PKCE verifier
    takeLog,         \* results of the take_verifier calls so far
    upserts,         \* the upsert_oauth_user calls, one record per call slot
    codec,           \* the token codec on its own: settings, tokens, last validation
    callback         \* the OAuth callback in progress

vars == <<clock, advances, users, refresh_tokens, nextJti, known, req, rotated,
          STATE_STORE, nextState, takeLog, upserts, codec, callback>>

sessionVars == <<users, refresh_tokens, nextJti, known, req, rotated>>
oauthVars == <<STATE_STORE, nextState, takeLog, upserts, codec, callback>>

-----------------------------------------------------------------------------
(* Bounds of the model *)

MaxReq == 2
MaxJti == 6
MaxAdvance == 2
TicksPerSec == 2
MaxStates == 2
MaxTakes == 3
MaxCalls == 2
MaxTokens == 2

(* Program constants *)

STATE_TTL_SECS == 600
access_token_expiry_minutes == 15
refresh_token_expiry_days == 7
\* jsonwebtoken's Validation::default(): validate_exp = true, leeway = 60 s
Leeway == 60

-----------------------------------------------------------------------------
(* Time *)

Secs(s) == s * TicksPerSec
Minutes(m) == Secs(m * 60)
Days(d) == Secs(d * 86400)
\* DateTime::timestamp() and Duration::as_secs(): whole seconds, truncated
Timestamp(t) == t \div TicksPerSec
as_secs(d) == d \div TicksPerSec

The(S) == CHOOSE x \in S : TRUE

-----------------------------------------------------------------------------
(* Token codec: auth/jwt.rs *)

NoClaims ==
    [sub |-> 0, email |-> "", role |-> "", tier |-> "", exp |-> 0, iat |-> 0, jti |-> 0]

\* jsonwebtoken::encode: a well-formed token signed with JWT_SECRET
encode(claims) == [wf |-> TRUE, sig |-> TRUE, claims |-> claims]

\* a string that is no JWT at all ("not.a.valid.jwt")
Malformed == [wf |-> FALSE, sig |-> FALSE, claims |-> NoClaims]

create_access_token(user_id, email, role, tier, now, jti) ==
    encode([sub |-> user_id, email |-> email, role |-> role, tier |-> tier,
            iat |-> Timestamp(now),
            exp |-> Timestamp(now + Minutes(access_token_expiry_minutes)),
            jti |-> jti])

create_refresh_token(user_id, email, role, tier, now, jti) ==
    LET expires_at == now + Days(refresh_token_expiry_days)
    IN [token |-> encode([sub |-> user_id, email |-> email, role |-> role,
                          tier |-> tier, iat |-> Timestamp(now),
                          exp |-> Timestamp(expires_at), jti |-> jti]),
        expires_at |-> expires_at]

\* decode::<Claims>(token, key, &Validation::default()): Ok(claims) == {claims}
validate_access_token(token, now) ==
    IF /\ token.wf
       /\ token.sig
       /\ ~(token.claims.exp < Timestamp(now) - Leeway)
    THEN {token.claims}
    ELSE {}

-----------------------------------------------------------------------------
(* Credential store: the queries on table refresh_tokens *)

Rows(table) == {table[i] : i \in 1..Len(table)}

\* SELECT id, revoked FROM refresh_tokens WHERE token_hash = $1 AND user_id = $2
\* with fetch_optional: the first matching row, if any
select_stored(table, token, sub) ==
    LET hits == {i \in 1..Len(table) :
                    table[i].token_hash = token /\ table[i].user_id = sub}
    IN IF hits = {} THEN {}
       ELSE {table[CHOOSE i \in hits : \A j \in hits : i <= j]}

\* a store that drops the replaced row instead of marking it
revoke_deleting(table, id) ==
    SelectSeq(table, LAMBDA row : row.id # id)

\* UPDATE refresh_tokens SET revoked = TRUE WHERE id = $1
revoke(table, id) ==
    [i \in 1..Len(table) |->
        IF table[i].id = id THEN [table[i] EXCEPT !.revoked = TRUE] ELSE table[i]]

\* UPDATE refresh_tokens SET revoked = TRUE WHERE user_id = $1 AND revoked = FALSE
revoke_all_for_user(table, user_id) ==
    [i \in 1..Len(table) |->
        IF table[i].user_id = user_id /\ ~table[i].revoked
        THEN [table[i] EXCEPT !.revoked = TRUE] ELSE table[i]]

\* INSERT INTO refresh_tokens (user_id, token_hash, expires_at) VALUES ($1, $2, $3)
insert(table, user_id, token, expires_at) ==
    Append(table, [id |-> Len(table) + 1, user_id |-> user_id, token_hash |-> token,
                   expires_at |-> expires_at, revoked |-> FALSE])

-----------------------------------------------------------------------------
(* Tiers: shared-types/src/models.rs *)

\* str::to_lowercase on the strings the model uses
to_lowercase(s) ==
    CASE s = "Premium" -> "premium"
      [] s = "ELITE" -> "elite"
      [] s = "Free" -> "free"
      [] OTHER -> s

rank(t) == CASE t = "Free" -> 0 [] t = "Premium" -> 1 [] t = "Elite" -> 2

\* a has_access that wants a strictly higher rank
has_access_strict(self, required) == rank(self) > rank(required)

has_access(self, required) == rank(self) >= rank(required)

from_str_or_default(s) ==
    CASE to_lowercase(s) = "premium" -> "Premium"
      [] to_lowercase(s) = "elite" -> "Elite"
      [] OTHER -> "Free"

as_str(t) ==
    CASE t = "Free" -> "free" [] t = "Premium" -> "premium" [] t = "Elite" -> "elite"

-----------------------------------------------------------------------------
(* Cookies and the per-request cookie slot: auth/cookies.rs *)

\* PendingCookieAction::Set { access_token, refresh_token }
SetAction(access, refresh) == [kind |-> "Set", access |-> {access}, refresh |-> {refresh}]
\* PendingCookieAction::Clear
ClearAction == [kind |-> "Clear", access |-> {}, refresh |-> {}]

\* set_auth_cookies / clear_auth_cookies append Set-Cookie headers to the response
set_auth_cookies(headers, access, refresh) == Append(headers, SetAction(access, refresh))
clear_auth_cookies(headers) == Append(headers, ClearAction)

\* schedule_auth_cookies / schedule_clear_cookies overwrite the request's CookieSlot
schedule_auth_cookies(access, refresh) == {SetAction(access, refresh)}
schedule_clear_cookies == {ClearAction}

\* the token strings a response's Set-Cookie headers carry
CookieTokens(headers) ==
    UNION {headers[i].access \cup headers[i].refresh : i \in 1..Len(headers)}

-----------------------------------------------------------------------------
(* Passwords: auth/password.rs *)

hash_password(p) == [alg |-> "argon2", of |-> p]
verify_password(p, h) == h = hash_password(p)

-----------------------------------------------------------------------------
(* Requests *)

Reqs == 1..MaxReq

NoResult == [status |-> "", msg |-> "", user |-> {}]
Ok(user) == [status |-> "Ok", msg |-> "", user |-> user]
Err(kind, msg) == [status |-> kind, msg |-> msg, user |-> {}]

Call(name) ==
    [name |-> name, email |-> "", password |-> "", user_id |-> 0, tier |-> "",
     display_name |-> "", TIER |-> 0]

\* a request slot that holds no request
IdleReq ==
    [pc |-> "idle",
     access |-> {},           \* cookies::extract_access_token(&headers)
     refresh |-> {},          \* cookies::extract_refresh_token(&headers)
     handler |-> Call(""),    \* the downstream handler the router dispatches to
     claims |-> {},           \* req.extensions(): Claims
     attempt |-> "none",      \* transparent refresh: none | absent (no refresh
                              \* cookie) | running | failed | ok
     failed_at |-> "",        \* the return None the refresh left by: decode |
                              \* select | revoked | create | validate
     rclaims |-> {},          \* try_transparent_refresh: claims
     stored |-> 0,            \* try_transparent_refresh: stored.id
     new_access |-> {},       \* try_transparent_refresh: new_access
     new_refresh |-> {},      \* try_transparent_refresh: new_refresh
     expires_at |-> 0,        \* try_transparent_refresh: expires_at
     refresh_cookies |-> {},  \* auth_middleware: refresh_cookies
     slot |-> {},             \* the request's CookieSlot
     action |-> {},           \* auth_middleware: the action taken from the slot
     runs |-> 0,              \* number of times next.run(req) was invoked
     result |-> NoResult,     \* what the handler returned
     db_failed |-> FALSE,     \* a query of the handler met a store error
     extracted |-> {},        \* the Claims an extractor handed to the handler
     returned |-> NoResult,   \* the response the middleware returned
     cookies |-> <<>>]        \* Set-Cookie headers of the response, in order

ValidEmails == {"a@b.com", "admin@co.com", "nobody@x.com", "neo@b.com"}

InitUsers ==
    << [id |-> 1, email |-> "a@b.com", password_hash |-> {hash_password("hunter22")},
        role |-> "user", tier |-> "free", display_name |-> "A"],
       [id |-> 2, email |-> "admin@co.com", password_hash |-> {hash_password("adminpass")},
        role |-> "admin", tier |-> "elite", display_name |-> "Admin"] >>

-----------------------------------------------------------------------------
(* Session middleware: auth/middleware.rs *)

\* a refresh that attaches the identity as soon as the token decodes, before
\* the record is looked up
try_transparent_refresh_eager(r0, now) ==
    LET claims == validate_access_token(The(r0.refresh), now)
    IN IF claims = {}
       THEN [r0 EXCEPT !.pc = "handler", !.attempt = "failed", !.failed_at = "decode"]
       ELSE [r0 EXCEPT !.pc = "select", !.attempt = "running", !.rclaims = claims,
                       !.claims = claims]

\* try_transparent_refresh up to its first database call (lines 75-77)
try_transparent_refresh(r0, now) ==
    LET claims == validate_access_token(The(r0.refresh), now)
    IN IF claims = {}
       THEN [r0 EXCEPT !.pc = "handler", !.attempt = "failed", !.failed_at = "decode"]
       ELSE [r0 EXCEPT !.pc = "select", !.attempt = "running", !.rclaims = claims]

\* a middleware that answers 401 itself when the request has no valid
\* access token and no refresh token
auth_middleware_rejecting(r0, now) ==
    IF r0.access = {}
    THEN [r0 EXCEPT !.pc = "done",
                    !.returned = Err("Unauthorized", "Authentication required")]
    ELSE LET claims == validate_access_token(The(r0.access), now)
         IN IF claims # {} THEN [r0 EXCEPT !.pc = "handler", !.claims = claims]
            ELSE IF r0.refresh = {}
                 THEN [r0 EXCEPT !.pc = "done", !.attempt = "absent",
                                 !.returned = Err("Unauthorized", "Authentication required")]
            ELSE LET rclaims == validate_access_token(The(r0.refresh), now)
                 IN IF rclaims = {}
                    THEN [r0 EXCEPT !.pc = "handler", !.attempt = "failed",
                                    !.failed_at = "decode"]
                    ELSE [r0 EXCEPT !.pc = "select", !.attempt = "running",
                                    !.rclaims = rclaims]

\* a middleware that also refreshes when the request carries a refresh token
\* and no access token
auth_middleware_refreshing(r0, now) ==
    IF r0.access = {}
    THEN IF r0.refresh = {} THEN [r0 EXCEPT !.pc = "handler"]
         ELSE try_transparent_refresh(r0, now)
    ELSE LET claims == validate_access_token(The(r0.access), now)
         IN IF claims # {} THEN [r0 EXCEPT !.pc = "handler", !.claims = claims]
            ELSE IF r0.refresh = {} THEN [r0 EXCEPT !.pc = "handler", !.attempt = "absent"]
            ELSE try_transparent_refresh(r0, now)

\* auth_middleware up to the first await (lines 17-41): the request of slot r
\* arrives with access credential a, refresh credential f, for handler h
auth_middleware(r0, now) ==
    IF r0.access = {} THEN [r0 EXCEPT !.pc = "handler"]
    ELSE LET claims == validate_access_token(The(r0.access), now)
         IN IF claims # {} THEN [r0 EXCEPT !.pc = "handler", !.claims = claims]
            ELSE IF r0.refresh = {} THEN [r0 EXCEPT !.pc = "handler", !.attempt = "absent"]
            ELSE try_transparent_refresh(r0, now)

Begin(r, a, f, h) ==
    /\ req[r].pc = "idle"
    /\ req' = [req EXCEPT ![r] =
                 auth_middleware([IdleReq EXCEPT !.access = a, !.refresh = f,
                                                 !.handler = h], clock)]
    /\ UNCHANGED <<clock, advances, users, refresh_tokens, nextJti, known, rotated, oauthVars>>

\* a SELECT whose revoked column is not looked at
refresh_select_unchecked(r0, table, dbOk) ==
    LET stored == IF dbOk
                  THEN select_stored(table, The(r0.refresh), The(r0.rclaims).sub)
                  ELSE {}
    IN IF stored = {}
       THEN [r0 EXCEPT !.pc = "handler", !.attempt = "failed", !.failed_at = "select"]
       ELSE [r0 EXCEPT !.pc = "revoke", !.stored = The(stored).id]

\* try_transparent_refresh lines 79-92: the SELECT and the revoked check
refresh_select(r0, table, dbOk) ==
    LET stored == IF dbOk
                  THEN select_stored(table, The(r0.refresh), The(r0.rclaims).sub)
                  ELSE {}
    IN IF stored = {}
       THEN [r0 EXCEPT !.pc = "handler", !.attempt = "failed", !.failed_at = "select"]
       ELSE IF The(stored).revoked
            THEN [r0 EXCEPT !.pc = "handler", !.attempt = "failed",
                            !.failed_at = "revoked", !.stored = The(stored).id]
       ELSE [r0 EXCEPT !.pc = "revoke", !.stored = The(stored).id]

RefreshSelect(r) ==
    /\ req[r].pc = "select"
    /\ \E dbOk \in BOOLEAN :
         req' = [req EXCEPT ![r] = refresh_select(req[r], refresh_tokens, dbOk)]
    /\ UNCHANGED <<clock, advances, users, refresh_tokens, nextJti, known, rotated, oauthVars>>

\* a refresh that issues the new pair with the tier of a new account
refresh_issue_default_tier(r0, now, jti, okA, okR) ==
    LET c == The(r0.rclaims)
        refresh == create_refresh_token(c.sub, c.email, c.role, "free", now, jti + 1)
    IN IF ~okA \/ ~okR
       THEN [r0 EXCEPT !.pc = "handler", !.attempt = "failed", !.failed_at = "create"]
       ELSE [r0 EXCEPT !.pc = "insert",
                       !.new_access =
                           {create_access_token(c.sub, c.email, c.role, "free", now, jti)},
                       !.new_refresh = {refresh.token},
                       !.expires_at = refresh.expires_at]

\* try_transparent_refresh lines 102-106: issue the new tokens
refresh_issue(r0, now, jti, okA, okR) ==
    LET c == The(r0.rclaims)
        refresh == create_refresh_token(c.sub, c.email, c.role, c.tier, now, jti + 1)
    IN IF ~okA \/ ~okR
       THEN [r0 EXCEPT !.pc = "handler", !.attempt = "failed", !.failed_at = "create"]
       ELSE [r0 EXCEPT !.pc = "insert",
                       !.new_access =
                           {create_access_token(c.sub, c.email, c.role, c.tier, now, jti)},
                       !.new_refresh = {refresh.token},
                       !.expires_at = refresh.expires_at]

\* try_transparent_refresh lines 94-106: the UPDATE, whose result is dropped,
\* then the new pair
RefreshRevoke(r) ==
    /\ req[r].pc = "revoke"
    /\ nextJti + 1 <= MaxJti
    /\ \E dbOk \in BOOLEAN :
         refresh_tokens' = IF dbOk THEN revoke(refresh_tokens, req[r].stored)
                                   ELSE refresh_tokens
    /\ \E okA \in BOOLEAN, okR \in BOOLEAN :
         /\ req' = [req EXCEPT ![r] = refresh_issue(req[r], clock, nextJti, okA, okR)]
         /\ nextJti' = IF okA /\ okR THEN nextJti + 2 ELSE nextJti
    /\ UNCHANGED <<clock, advances, users, known, rotated, oauthVars>>

\* try_transparent_refresh lines 118-122: validate the new access token,
\* attach its claims, return the pair
refresh_finish(r0, now) ==
    LET new_claims == validate_access_token(The(r0.new_access), now)
    IN IF new_claims = {}
       THEN [r0 EXCEPT !.pc = "handler", !.attempt = "failed", !.failed_at = "validate"]
       ELSE [r0 EXCEPT !.pc = "handler", !.attempt = "ok", !.claims = new_claims,
                       !.refresh_cookies = {[access |-> The(r0.new_access),
                                             refresh |-> The(r0.new_refresh)]}]

\* try_transparent_refresh lines 108-122: the INSERT, whose result is dropped
RefreshInsert(r) ==
    /\ req[r].pc = "insert"
    /\ \E dbOk \in BOOLEAN :
         refresh_tokens' =
             IF dbOk THEN insert(refresh_tokens, The(req[r].rclaims).sub,
                                 The(req[r].new_refresh), req[r].expires_at)
                     ELSE refresh_tokens
    /\ req' = [req EXCEPT ![r] = refresh_finish(req[r], clock)]
    /\ rotated' = IF refresh_finish(req[r], clock).attempt = "ok"
                  THEN rotated \cup req[r].refresh ELSE rotated
    /\ UNCHANGED <<clock, advances, users, nextJti, known, oauthVars>>

\* a middleware that applies the staged action only when no refresh happened
response_cookies_either(r0) ==
    IF r0.refresh_cookies # {}
    THEN set_auth_cookies(<<>>, The(r0.refresh_cookies).access,
                          The(r0.refresh_cookies).refresh)
    ELSE IF r0.slot = {} THEN <<>>
    ELSE IF The(r0.slot).kind = "Set"
         THEN set_auth_cookies(<<>>, The(The(r0.slot).access), The(The(r0.slot).refresh))
         ELSE clear_auth_cookies(<<>>)

\* a middleware that applies the staged action before the refresh cookies
response_cookies_staged_first(r0) ==
    LET h1 == IF r0.slot = {} THEN <<>>
              ELSE IF The(r0.slot).kind = "Set"
                   THEN set_auth_cookies(<<>>, The(The(r0.slot).access),
                                         The(The(r0.slot).refresh))
                   ELSE clear_auth_cookies(<<>>)
    IN IF r0.refresh_cookies # {}
       THEN set_auth_cookies(h1, The(r0.refresh_cookies).access,
                             The(r0.refresh_cookies).refresh)
       ELSE h1

\* auth_middleware lines 45-63: the cookies of the response
response_cookies(r0) ==
    LET h1 == IF r0.refresh_cookies # {}
              THEN set_auth_cookies(<<>>, The(r0.refresh_cookies).access,
                                    The(r0.refresh_cookies).refresh)
              ELSE <<>>
    IN IF r0.slot = {} THEN h1
       ELSE IF The(r0.slot).kind = "Set"
            THEN set_auth_cookies(h1, The(The(r0.slot).access), The(The(r0.slot).refresh))
            ELSE clear_auth_cookies(h1)

\* the response has been sent; the slot is free for the next request
Reset(r) ==
    /\ req[r].pc = "done"
    /\ req' = [req EXCEPT ![r] = IdleReq]
    /\ UNCHANGED <<clock, advances, users, refresh_tokens, nextJti, known, rotated, oauthVars>>

-----------------------------------------------------------------------------
(* Authorization extractors: auth/extractors.rs *)

\* AuthRequired::from_request_parts: the rejection, if any
AuthRequired(extensions) ==
    IF extensions = {} THEN {Err("Unauthorized", "Authentication required")} ELSE {}

-----------------------------------------------------------------------------
(* Handlers: api.rs (server functions) and rest.rs *)

\* what a handler leaves behind: its result, the cookie slot, the two tables,
\* the uuid counter, whether one of its queries met a store error, and the
\* token strings in the body of its response
Out(result, slot, us, table, jti) ==
    [result |-> result, slot |-> slot, users |-> us, refresh_tokens |-> table,
     jti |-> jti, db_failed |-> result.status = "DatabaseError", body_tokens |-> {}]

\* the first row of users matching a predicate on one column (fetch_optional)
user_by_email(us, email) ==
    LET hits == {i \in 1..Len(us) : us[i].email = email}
    IN IF hits = {} THEN {} ELSE {us[CHOOSE i \in hits : \A j \in hits : i <= j]}

user_by_id(us, id) ==
    LET hits == {i \in 1..Len(us) : us[i].id = id}
    IN IF hits = {} THEN {} ELSE {us[CHOOSE i \in hits : \A j \in hits : i <= j]}

\* validator::Validate on the request DTOs
is_email(e) == e \in ValidEmails
validate_login_request(h) == is_email(h.email) /\ h.password # ""
validate_profile_request(h) == h.display_name # "" /\ is_email(h.email)

\* a login that tells the caller when no user has the email
login_telling(r0, us, table, now, jti, dbOk1, dbOk2) ==
    LET h == r0.handler
        row == user_by_email(us, h.email)
        user == The(row)
        user_tier == from_str_or_default(user.tier)
        access_token ==
            create_access_token(user.id, user.email, user.role, as_str(user_tier), now, jti)
        refresh ==
            create_refresh_token(user.id, user.email, user.role, as_str(user_tier), now,
                                 jti + 1)
        same(result) == Out(result, r0.slot, us, table, jti)
    IN IF ~validate_login_request(h)
       THEN same(Err("ValidationError", "Validation failed"))
       ELSE IF ~dbOk1 THEN same(Err("DatabaseError", "database"))
       ELSE IF row = {} THEN same(Err("NotFound", "No user with this email"))
       ELSE IF user.password_hash = {}
            THEN same(Err("Unauthorized", "Invalid email or password"))
       ELSE IF ~verify_password(h.password, The(user.password_hash))
            THEN same(Err("Unauthorized", "Invalid email or password"))
       ELSE IF ~dbOk2
            THEN same(Err("DatabaseError", "database"))
       ELSE Out(Ok({user.id}), schedule_auth_cookies(access_token, refresh.token), us,
                insert(table, user.id, refresh.token, refresh.expires_at), jti + 2)

\* api.rs login (lines 484-550)
login(r0, us, table, now, jti, dbOk1, dbOk2) ==
    LET h == r0.handler
        row == user_by_email(us, h.email)
        user == The(row)
        user_tier == from_str_or_default(user.tier)
        access_token ==
            create_access_token(user.id, user.email, user.role, as_str(user_tier), now, jti)
        refresh ==
            create_refresh_token(user.id, user.email, user.role, as_str(user_tier), now,
                                 jti + 1)
        same(result) == Out(result, r0.slot, us, table, jti)
    IN IF ~validate_login_request(h)
       THEN same(Err("ValidationError", "Validation failed"))
       ELSE IF ~dbOk1 THEN same(Err("DatabaseError", "database"))
       ELSE IF row = {} THEN same(Err("Unauthorized", "Invalid email or password"))
       ELSE IF user.password_hash = {}
            THEN same(Err("Unauthorized", "Invalid email or password"))
       ELSE IF ~verify_password(h.password, The(user.password_hash))
            THEN same(Err("Unauthorized", "Invalid email or password"))
       ELSE IF ~dbOk2
            THEN same(Err("DatabaseError", "database"))
       ELSE Out(Ok({user.id}), schedule_auth_cookies(access_token, refresh.token), us,
                insert(table, user.id, refresh.token, refresh.expires_at), jti + 2)

\* rest.rs login (lines 458-517): no validation of the payload, no cookies;
\* the access token is returned in the body, the refresh token to nobody
rest_login(r0, us, table, now, jti, dbOk1, dbOk2) ==
    LET h == r0.handler
        row == user_by_email(us, h.email)
        user == The(row)
        user_tier == from_str_or_default(user.tier)
        access_token ==
            create_access_token(user.id, user.email, user.role, as_str(user_tier), now, jti)
        refresh ==
            create_refresh_token(user.id, user.email, user.role, as_str(user_tier), now,
                                 jti + 1)
        same(result) == Out(result, r0.slot, us, table, jti)
    IN IF ~dbOk1 THEN same(Err("DatabaseError", "database"))
       ELSE IF row = {} THEN same(Err("Unauthorized", "Invalid email or password"))
       ELSE IF user.password_hash = {}
            THEN same(Err("Unauthorized", "Invalid email or password"))
       ELSE IF ~verify_password(h.password, The(user.password_hash))
            THEN same(Err("Unauthorized", "Invalid email or password"))
       ELSE IF ~dbOk2
            THEN same(Err("DatabaseError", "database"))
       ELSE [Out(Ok({user.id}), r0.slot, us,
                 insert(table, user.id, refresh.token, refresh.expires_at), jti + 2)
             EXCEPT !.body_tokens = {access_token}]

\* the server functions read the caller from the request headers:
\* cookies::extract_access_token(&headers), then jwt::validate_access_token
header_claims(r0, now) ==
    IF r0.access = {} THEN {} ELSE validate_access_token(The(r0.access), now)

\* api.rs get_current_user (lines 555-600)
get_current_user(r0, us, table, now, jti, dbOk) ==
    LET claims == header_claims(r0, now)
        same(result) == Out(result, r0.slot, us, table, jti)
    IN IF r0.access = {} THEN same(Ok({}))
       ELSE IF claims = {} THEN same(Ok({}))
       ELSE IF ~dbOk THEN same(Err("DatabaseError", "database"))
       ELSE IF user_by_id(us, The(claims).sub) = {} THEN same(Ok({}))
       ELSE same(Ok({The(claims).sub}))

\* api.rs logout (lines 605-627)
logout(r0, us, table, now, jti, dbOk) ==
    LET claims == header_claims(r0, now)
    IN [Out(Ok({}), schedule_clear_cookies, us,
            IF claims # {} /\ dbOk THEN revoke_all_for_user(table, The(claims).sub)
                                   ELSE table,
            jti)
        EXCEPT !.db_failed = claims # {} /\ ~dbOk]

\* rest.rs logout (lines 531-544)
rest_logout(r0, us, table, now, jti, dbOk) ==
    LET same(result) == Out(result, r0.slot, us, table, jti)
    IN IF AuthRequired(r0.claims) # {} THEN same(The(AuthRequired(r0.claims)))
       ELSE IF ~dbOk THEN same(Err("DatabaseError", "database"))
       ELSE Out(Ok({}), r0.slot, us, revoke_all_for_user(table, The(r0.claims).sub), jti)

\* UPDATE users SET tier = $2 WHERE id = $1
set_tier(us, id, tier) ==
    [i \in 1..Len(us) |-> IF us[i].id = id THEN [us[i] EXCEPT !.tier = tier] ELSE us[i]]

\* UPDATE users SET display_name = $2, email = $3 WHERE id = $1
set_profile(us, id, display_name, email) ==
    [i \in 1..Len(us) |->
        IF us[i].id = id
        THEN [us[i] EXCEPT !.display_name = display_name, !.email = email]
        ELSE us[i]]

valid_tiers == {"free", "premium", "elite"}

\* api.rs update_user_tier (lines 193-237)
update_user_tier(r0, us, table, now, jti, dbOk) ==
    LET h == r0.handler
        tier_lower == to_lowercase(h.tier)
        claims == header_claims(r0, now)
        same(result) == Out(result, r0.slot, us, table, jti)
    IN IF tier_lower \notin valid_tiers
       THEN same(Err("ValidationError", "Invalid tier value"))
       ELSE IF r0.access = {} THEN same(Err("Unauthorized", "Authentication required"))
       ELSE IF claims = {} THEN same(Err("Unauthorized", "Invalid token"))
       ELSE IF The(claims).role # "admin"
            THEN same(Err("Forbidden", "Admin role required to change user tiers"))
       ELSE IF ~dbOk THEN same(Err("DatabaseError", "database"))
       ELSE IF user_by_id(us, h.user_id) = {}
            THEN same(Err("NotFound", "Resource not found"))
       ELSE Out(Ok({h.user_id}), r0.slot, set_tier(us, h.user_id, tier_lower), table, jti)

\* rest.rs update_user_tier (lines 563-596)
rest_update_user_tier(r0, us, table, now, jti, dbOk) ==
    LET h == r0.handler
        tier_lower == to_lowercase(h.tier)
        same(result) == Out(result, r0.slot, us, table, jti)
    IN IF AuthRequired(r0.claims) # {} THEN same(The(AuthRequired(r0.claims)))
       ELSE IF The(r0.claims).role # "admin"
            THEN same(Err("Forbidden", "Admin role required to change user tiers"))
       ELSE IF tier_lower \notin valid_tiers
            THEN same(Err("ValidationError", "Invalid tier value"))
       ELSE IF ~dbOk THEN same(Err("DatabaseError", "database"))
       ELSE IF user_by_id(us, h.user_id) = {}
            THEN same(Err("NotFound", "User not found"))
       ELSE Out(Ok({h.user_id}), r0.slot, set_tier(us, h.user_id, tier_lower), table, jti)

\* api.rs update_profile (lines 632-681)
update_profile(r0, us, table, now, jti, dbOk) ==
    LET h == r0.handler
        claims == header_claims(r0, now)
        same(result) == Out(result, r0.slot, us, table, jti)
    IN IF ~validate_profile_request(h)
       THEN same(Err("ValidationError", "Validation failed"))
       ELSE IF r0.access = {} THEN same(Err("Unauthorized", "Authentication required"))
       ELSE IF claims = {} THEN same(Err("Unauthorized", "Invalid token"))
       ELSE IF ~dbOk THEN same(Err("DatabaseError", "database"))
       ELSE IF user_by_id(us, The(claims).sub) = {}
            THEN same(Err("NotFound", "User not found"))
       ELSE Out(Ok({The(claims).sub}), r0.slot,
                set_profile(us, The(claims).sub, h.display_name, h.email), table, jti)

\* api.rs get_premium_analytics (lines 18-40 and the read-only queries after)
get_premium_analytics(r0, us, table, now, jti, dbOk) ==
    LET claims == header_claims(r0, now)
        same(result) == Out(result, r0.slot, us, table, jti)
    IN IF r0.access = {} THEN same(Err("Unauthorized", "Authentication required"))
       ELSE IF claims = {} THEN same(Err("Unauthorized", "Invalid token"))
       ELSE IF ~has_access(from_str_or_default(The(claims).tier), "Premium")
            THEN same(Err("Forbidden", "Premium tier required for analytics"))
       ELSE IF ~dbOk THEN same(Err("DatabaseError", "database"))
       ELSE same(Ok({The(claims).sub}))

-----------------------------------------------------------------------------
(* next.run(req) and the rest of auth_middleware (lines 43-65): the router    *)
(* runs one handler for the request, then the middleware puts the cookies on  *)
(* the response and returns it.  Nothing is awaited between the handler's     *)
(* return and the middleware's, so this is one step.                          *)

LoginCalls ==
    {[Call("login") EXCEPT !.email = c[1], !.password = c[2]] :
        c \in {<<"a@b.com", "hunter22">>, <<"a@b.com", "wrongpass">>,
               <<"admin@co.com", "adminpass">>, <<"nobody@x.com", "hunter22">>}}

TierCalls(name) ==
    {[Call(name) EXCEPT !.user_id = id, !.tier = t] :
        id \in {1, 9}, t \in {"Premium", "gold"}}

ProfileCalls ==
    {[Call("update_profile") EXCEPT !.display_name = c[1], !.email = c[2]] :
        c \in {<<"Neo", "neo@b.com">>, <<"", "neo@b.com">>}}

\* the request as the handler h sees it
Seen(r, h) == [req[r] EXCEPT !.handler = h]

\* the request after handler h left o behind and the middleware returned
Responded(r0, h, o) ==
    LET after == [r0 EXCEPT !.handler = h, !.result = o.result, !.slot = o.slot,
                            !.db_failed = o.db_failed, !.runs = r0.runs + 1]
    IN [after EXCEPT !.pc = "done", !.slot = {}, !.action = after.slot,
                     !.returned = after.result,
                     !.cookies = response_cookies(after)]

Apply(r, h, o) ==
    /\ req[r].pc = "handler"
    /\ o.jti <= MaxJti + 1
    /\ req' = [req EXCEPT ![r] = Responded(req[r], h, o)]
    /\ users' = o.users
    /\ refresh_tokens' = o.refresh_tokens
    /\ nextJti' = o.jti
    /\ known' = known \cup CookieTokens(Responded(req[r], h, o).cookies)
                      \cup o.body_tokens
    /\ UNCHANGED <<clock, advances, rotated, oauthVars>>

RunLogin(r) ==
    \E h \in LoginCalls, d1 \in BOOLEAN, d2 \in BOOLEAN :
        Apply(r, h, login(Seen(r, h), users, refresh_tokens, clock, nextJti, d1, d2))

RunRestLogin(r) ==
    \E h \in LoginCalls, d1 \in BOOLEAN, d2 \in BOOLEAN :
        Apply(r, [h EXCEPT !.name = "rest_login"],
              rest_login(Seen(r, [h EXCEPT !.name = "rest_login"]), users, refresh_tokens,
                         clock, nextJti, d1, d2))

RunLogout(r) ==
    \E d \in BOOLEAN :
        Apply(r, Call("logout"),
              logout(Seen(r, Call("logout")), users, refresh_tokens, clock, nextJti, d))

RunRestLogout(r) ==
    \E d \in BOOLEAN :
        Apply(r, Call("rest_logout"),
              rest_logout(Seen(r, Call("rest_logout")), users, refresh_tokens, clock,
                          nextJti, d))

RunGetCurrentUser(r) ==
    \E d \in BOOLEAN :
        Apply(r, Call("get_current_user"),
              get_current_user(Seen(r, Call("get_current_user")), users, refresh_tokens,
                               clock, nextJti, d))

RunUpdateUserTier(r) ==
    \E h \in TierCalls("update_user_tier"), d \in BOOLEAN :
        Apply(r, h, update_user_tier(Seen(r, h), users, refresh_tokens, clock, nextJti, d))

RunRestUpdateUserTier(r) ==
    \E h \in TierCalls("rest_update_user_tier"), d \in BOOLEAN :
        Apply(r, h, rest_update_user_tier(Seen(r, h), users, refresh_tokens, clock,
                                          nextJti, d))

RunUpdateProfile(r) ==
    \E h \in ProfileCalls, d \in BOOLEAN :
        Apply(r, h, update_profile(Seen(r, h), users, refresh_tokens, clock, nextJti, d))

RunGetPremiumAnalytics(r) ==
    \E d \in BOOLEAN :
        Apply(r, Call("get_premium_analytics"),
              get_premium_analytics(Seen(r, Call("get_premium_analytics")), users,
                                    refresh_tokens, clock, nextJti, d))

-----------------------------------------------------------------------------
(* Time passes *)

\* long enough for an access token to expire
AccessJump == Minutes(access_token_expiry_minutes) + Secs(Leeway + 1)
\* a second more than the life of a refresh token
RefreshJump == Days(refresh_token_expiry_days) + Secs(1)

Advance(d) ==
    /\ advances < MaxAdvance
    /\ clock' = clock + d
    /\ advances' = advances + 1
    /\ UNCHANGED <<sessionVars, oauthVars>>

\* a request is answered in far less than a minute: the minutes and days pass
\* between requests
Quiet == \A r \in Reqs : req[r].pc \in {"idle", "done"}
Pass(d) == Quiet /\ Advance(d)

-----------------------------------------------------------------------------
(* The clients *)

\* the credentials a client can put in a request: nothing, a string that is
\* no token, or any token string a response has delivered
Creds == {{}} \cup {{t} : t \in known \cup {Malformed}}

\* a browser sends the two cookies one response gave it, or none
Jars ==
    {<<{}, {}>>} \cup
    {<<{a}, {f}>> : <<a, f>> \in
        {p \in known \X known : p[2].claims.jti = p[1].claims.jti + 1
                                /\ p[1].claims.jti % 2 = 1}}

\* requests are sent while uuids are left for the tokens they may issue
Arrive(r, a, f) == nextJti + 1 <= MaxJti /\ Begin(r, a, f, Call(""))

Init ==
    /\ clock = 0
    /\ advances = 0
    /\ users = InitUsers
    /\ refresh_tokens = <<>>
    /\ nextJti = 1
    /\ known = {}
    /\ req = [r \in Reqs |-> IdleReq]
    /\ rotated = {}
    /\ STATE_STORE = {}
    /\ nextState = 1
    /\ takeLog = <<>>
    /\ upserts = <<>>
    /\ codec = <<>>
    /\ callback = <<>>

-----------------------------------------------------------------------------
(* Spec: one client request at a time, with any mix of credentials, against   *)
(* the session endpoints                                                      *)

Next ==
    \/ \E a \in Creds, f \in Creds : Arrive(1, a, f)
    \/ RefreshSelect(1)
    \/ RefreshRevoke(1)
    \/ RefreshInsert(1)
    \/ RunLogin(1)
    \/ RunLogout(1)
    \/ RunRestLogout(1)
    \/ RunGetCurrentUser(1)
    \/ Reset(1)
    \/ \E d \in {AccessJump, RefreshJump} : Pass(d)

Spec == Init /\ [][Next]_vars

-----------------------------------------------------------------------------
(* SpecCaller: one browser, one request at a time, against the handlers that  *)
(* act for the calling user                                                   *)

NextCaller ==
    \/ \E j \in Jars : Arrive(1, j[1], j[2])
    \/ RefreshSelect(1)
    \/ RefreshRevoke(1)
    \/ RefreshInsert(1)
    \/ RunLogin(1)
    \/ RunGetCurrentUser(1)
    \/ RunUpdateProfile(1)
    \/ RunUpdateUserTier(1)
    \/ RunRestUpdateUserTier(1)
    \/ RunGetPremiumAnalytics(1)
    \/ Reset(1)
    \/ Pass(AccessJump)

SpecCaller == Init /\ [][NextCaller]_vars

-----------------------------------------------------------------------------
(* SpecConc: browsers whose requests overlap; every await of the middleware   *)
(* is a point where another request can run                                   *)

NextConc ==
    \/ \E r \in Reqs, j \in Jars : Arrive(r, j[1], j[2])
    \/ \E r \in Reqs : RefreshSelect(r)
    \/ \E r \in Reqs : RefreshRevoke(r)
    \/ \E r \in Reqs : RefreshInsert(r)
    \/ RunLogin(1)
    \/ \E r \in Reqs : RunLogout(r)
    \/ \E r \in Reqs : Reset(r)
    \/ Pass(AccessJump)

SpecConc == Init /\ [][NextConc]_vars

-----------------------------------------------------------------------------
(* OAuth state cache: auth/oauth_state.rs.  Every function holds the mutex    *)
(* of STATE_STORE from its first line to its last, so each is one step.       *)

\* store_state (lines 21-35)
store_state(store, state, verifier, now) ==
    LET cutoff == now - Secs(STATE_TTL_SECS)
        retained == {e \in store : e.created_at > cutoff}
    IN {e \in retained : e.state # state}
       \cup {[state |-> state, verifier |-> verifier, created_at |-> now]}

\* a take_verifier that reads the entry with get and leaves it in the map
take_verifier_get(store, state, now) ==
    LET entry == {e \in store : e.state = state}
        elapsed == as_secs(now - The(entry).created_at)
    IN IF entry = {} THEN [store |-> store, result |-> {}]
       ELSE IF elapsed > STATE_TTL_SECS
            THEN [store |-> store, result |-> {}]
            ELSE [store |-> store, result |-> {The(entry).verifier}]

\* take_verifier (lines 39-49): the store it leaves and the Option it returns
take_verifier(store, state, now) ==
    LET entry == {e \in store : e.state = state}
        elapsed == as_secs(now - The(entry).created_at)
    IN IF entry = {} THEN [store |-> store, result |-> {}]
       ELSE IF elapsed > STATE_TTL_SECS
            THEN [store |-> store \ entry, result |-> {}]
            ELSE [store |-> store \ entry, result |-> {The(entry).verifier}]

\* oauth::get_authorize_url (oauth.rs lines 81-98): a fresh random CSRF state
\* and PKCE verifier are stored
StoreState ==
    /\ nextState <= MaxStates
    /\ STATE_STORE' = store_state(STATE_STORE, nextState, [pkce |-> nextState], clock)
    /\ nextState' = nextState + 1
    /\ UNCHANGED <<clock, advances, sessionVars, takeLog, upserts, codec, callback>>

\* a callback arrives with CSRF state s and calls take_verifier; the log keeps
\* the state asked for, the age of its entry in ticks if it had one, and the
\* Option returned
TakeVerifier(s) ==
    /\ Len(takeLog) < MaxTakes
    /\ LET entry == {e \in STATE_STORE : e.state = s}
           taken == take_verifier(STATE_STORE, s, clock)
       IN /\ STATE_STORE' = taken.store
          /\ takeLog' = Append(takeLog,
                 [state |-> s,
                  age |-> IF entry = {} THEN {} ELSE {clock - The(entry).created_at},
                  result |-> taken.result])
    /\ UNCHANGED <<clock, advances, sessionVars, nextState, upserts, codec, callback>>

\* one tick, one tick less than the TTL, the TTL
OAuthJumps == {1, Secs(STATE_TTL_SECS) - 1, Secs(STATE_TTL_SECS)}

\* the CSRF states a callback can carry: those issued so far, or one never issued
IssuedStates == 0..(nextState - 1)

NextOAuth ==
    \/ StoreState
    \/ \E s \in IssuedStates : TakeVerifier(s)
    \/ \E d \in OAuthJumps : Advance(d)

SpecOAuth == Init /\ [][NextOAuth]_vars

-----------------------------------------------------------------------------
(* Properties of the OAuth state cache, checked under SpecOAuth *)

\* the takes of the log, in the order they happened
Takes == 1..Len(takeLog)

\* C8: of all the take_verifier calls made with one state string, at most one
\* returns the verifier, and every call after the first returns None
C8_StateUsedOnce ==
    /\ \A i \in Takes, j \in Takes :
         (i < j /\ takeLog[i].state = takeLog[j].state) => takeLog[j].result = {}
    /\ \A i \in Takes, j \in Takes :
         (takeLog[i].state = takeLog[j].state /\ takeLog[i].result # {}
            /\ takeLog[j].result # {}) => i = j

\* a stored state is taken twice: the first take returns its verifier, the
\* second returns None
C8_TakenTwice ==
    \E i \in Takes, j \in Takes :
        /\ i < j
        /\ takeLog[i].state = takeLog[j].state
        /\ takeLog[i].result # {}
        /\ takeLog[j].result = {}

\* C9: a take_verifier call made more than STATE_TTL_SECS seconds after the
\* store_state call that stored the state returns None
C9_ExpiredStateRejected ==
    \A i \in Takes :
        (takeLog[i].age # {} /\ The(takeLog[i].age) > Secs(STATE_TTL_SECS))
            => takeLog[i].result = {}

-----------------------------------------------------------------------------
(* Properties of the session middleware *)

\* the records of the table that hold token string tok
RecordsOf(table, tok) == {row \in Rows(table) : row.token_hash = tok}

\* the record of the refresh token of request r0 is missing, belongs to
\* another user, is revoked or is expired
BadRecord(table, r0, now) ==
    \/ RecordsOf(table, The(r0.refresh)) = {}
    \/ \E row \in RecordsOf(table, The(r0.refresh)) :
          \/ row.user_id # The(r0.rclaims).sub
          \/ row.revoked
          \/ row.expires_at < now

\* request r reads the record of its refresh token in this step
Selects(r) == req[r].pc = "select" /\ req'[r].pc # "select"

\* the step rejects the refresh of request r: no identity, no tokens, no
\* cookies, no record changed
Rejects(r) ==
    /\ req'[r].pc = "handler"
    /\ req'[r].attempt = "failed"
    /\ req'[r].claims = {}
    /\ req'[r].new_access = {} /\ req'[r].new_refresh = {}
    /\ req'[r].refresh_cookies = {}
    /\ refresh_tokens' = refresh_tokens
    /\ nextJti' = nextJti

\* C1: once a transparent refresh has returned a new pair, a later refresh
\* attempt with the old refresh token is rejected, and the new refresh token
\* has an unrevoked record for a later attempt to succeed with
C1_RefreshRotates ==
    [][\A r \in Reqs :
          /\ (Selects(r) /\ req[r].refresh \subseteq rotated) => Rejects(r)
          /\ (req[r].attempt # "ok" /\ req'[r].attempt = "ok") =>
                \E row \in RecordsOf(refresh_tokens', The(req'[r].new_refresh)) :
                    ~row.revoked]_vars

\* C2: a refresh attempt whose record is revoked, expired, missing or another
\* user's attaches no claims, mints no tokens and changes no record
C2_BadRecordNeverAuthorizes ==
    [][\A r \in Reqs :
          (Selects(r) /\ BadRecord(refresh_tokens, req[r], clock)) => Rejects(r)]_vars

\* C3: when a logout made with a valid session completes and no store write
\* failed, every refresh record of the caller is revoked
C3_LogoutRevokesAll ==
    [][\A r \in Reqs :
          (/\ req[r].pc = "handler" /\ req'[r].pc = "done"
           /\ req'[r].handler.name \in {"logout", "rest_logout"}
           /\ req[r].claims # {}
           /\ ~req'[r].db_failed)
          => \A row \in Rows(refresh_tokens') :
                row.user_id = The(req[r].claims).sub => row.revoked]_vars

\* the handlers that act for the calling user
CallerHandlers ==
    {"get_current_user", "update_profile", "update_user_tier",
     "rest_update_user_tier", "get_premium_analytics"}

\* C4: in a request whose transparent refresh succeeded, the refreshed identity
\* is attached and the handler acts for it: no Unauthorized, and
\* get_current_user returns the user
C4_RefreshedIdentityServes ==
    \A r \in Reqs :
        (/\ req[r].pc = "done" /\ req[r].attempt = "ok"
         /\ req[r].handler.name \in CallerHandlers)
        => /\ req[r].claims # {}
           /\ req[r].result.status # "Unauthorized"
           /\ (req[r].handler.name = "get_current_user" /\ req[r].result.status = "Ok")
                 => req[r].result.user = {The(req[r].claims).sub}

\* C5: whatever the cookies and the store do, the middleware answers no request
\* itself: the handler runs exactly once and its response is the one returned
C5_HandlerRunsOnce ==
    \A r \in Reqs :
        /\ req[r].pc = "done" =>
              /\ req[r].runs = 1
              /\ req[r].result # NoResult
              /\ req[r].returned = req[r].result
        /\ req[r].pc \in {"select", "revoke", "insert", "handler"} =>
              /\ req[r].runs = 0
              /\ req[r].returned = NoResult

\* a request with a malformed access token and a refresh token that has no
\* record has been answered by its handler
C5_AnsweredAfterFailedLookup ==
    \E r \in Reqs :
        /\ req[r].pc = "done"
        /\ req[r].access = {Malformed}
        /\ req[r].failed_at = "select"
        /\ req[r].runs = 1
        /\ req[r].returned = req[r].result

\* C6: a refresh that fails at any step leaves the request anonymous, adds no
\* refresh cookies, and the handler still runs once and is the one answering
C6_FailedRefreshIsSilent ==
    \A r \in Reqs :
        req[r].attempt \in {"failed", "absent"} =>
            /\ req[r].pc \in {"handler", "done"}
            /\ req[r].claims = {}
            /\ req[r].refresh_cookies = {}
            /\ req[r].pc = "done" =>
                  /\ req[r].runs = 1
                  /\ req[r].returned = req[r].result

\* a request whose refresh found its record revoked was served as anonymous
C6_RevokedServedAnonymous ==
    \E r \in Reqs :
        /\ req[r].pc = "done"
        /\ req[r].failed_at = "revoked"
        /\ req[r].handler.name = "get_current_user"
        /\ req[r].claims = {}
        /\ req[r].refresh_cookies = {}
        /\ req[r].returned = Ok({})

\* C7: a refresh attempt that reads the record of its token after revoked has
\* been written to it is rejected
C7_RevokedSerializes ==
    [][\A r \in Reqs :
          (/\ Selects(r)
           /\ \E row \in RecordsOf(refresh_tokens, The(req[r].refresh)) : row.revoked)
          => Rejects(r)]_vars

\* two requests carry the same refresh token: one has written revoked and is
\* about to insert the new record, the other read the record after that write
\* and was rejected
C7_LoserRejected ==
    \E r \in Reqs, q \in Reqs :
        /\ r # q
        /\ req[r].refresh # {} /\ req[r].refresh = req[q].refresh
        /\ req[r].pc = "insert"
        /\ req[q].failed_at = "revoked"
        /\ req[q].stored = req[r].stored

\* C10: a token issued by create_refresh_token, presented as the access
\* credential, attaches no identity
C10_RefreshTokenNotAccess ==
    \A r \in Reqs :
        (req[r].access # {} /\ RecordsOf(refresh_tokens, The(req[r].access)) # {})
            => req[r].claims # {The(req[r].access).claims}

-----------------------------------------------------------------------------
(* Properties of the tier gate and the extractors *)

\* the tier the users table holds for user id
stored_tier(us, id) == from_str_or_default(The(user_by_id(us, id)).tier)

\* request r has been answered by get_premium_analytics, called with the
\* access token of a session that was valid on arrival, and no query failed
AnalyticsAnswered(r) ==
    /\ req[r].pc = "done"
    /\ req[r].handler.name = "get_premium_analytics"
    /\ req[r].attempt = "none"
    /\ req[r].claims # {}
    /\ ~req[r].db_failed

\* C11: a caller whose tier is free is refused the Premium-gated resource with
\* Forbidden, and once update_user_tier has stored premium for that caller the
\* caller's next request for it succeeds
C11_PromotedCallerSucceeds ==
    \A r \in Reqs :
        AnalyticsAnswered(r) =>
            LET sub == The(req[r].claims).sub
            IN IF has_access(stored_tier(users, sub), "Premium")
               THEN req[r].result.status = "Ok"
               ELSE req[r].result.status = "Forbidden"

\* the const parameter TIER as TierRequired reads it (lines 48-53)
required_tier(TIER) ==
    CASE TIER = 0 -> "Free" [] TIER = 1 -> "Premium" [] TIER = 2 -> "Elite"
      [] OTHER -> "Elite"

\* format!("{} tier or higher required", required_tier.as_str())
tier_message(t) ==
    CASE t = "Free" -> "free tier or higher required"
      [] t = "Premium" -> "premium tier or higher required"
      [] t = "Elite" -> "elite tier or higher required"

\* what an extractor returns: a rejection, or the value the handler receives
Extracted(rejection, claims) == [rejection |-> rejection, claims |-> claims]

\* AuthRequired::from_request_parts (lines 12-19)
from_request_parts_AuthRequired(extensions) ==
    Extracted(AuthRequired(extensions), extensions)

\* an optional extractor that rejects the anonymous request
from_request_parts_MaybeAuth_rejecting(extensions) ==
    Extracted(AuthRequired(extensions), extensions)

\* MaybeAuth::from_request_parts (lines 28-30)
from_request_parts_MaybeAuth(extensions) == Extracted({}, extensions)

\* TierRequired::<TIER>::from_request_parts (lines 40-63)
from_request_parts_TierRequired(extensions, TIER) ==
    IF extensions = {}
    THEN Extracted({Err("Unauthorized", "Authentication required")}, {})
    ELSE LET user_tier == from_str_or_default(The(extensions).tier)
         IN IF ~has_access(user_tier, required_tier(TIER))
            THEN Extracted({Err("Forbidden", tier_message(required_tier(TIER)))}, {})
            ELSE Extracted({}, extensions)

\* the request after its extractor ran: rejected, or handed to a handler that
\* answers Ok
extracted_request(r0, h, e) ==
    [r0 EXCEPT !.pc = "done", !.handler = h, !.runs = r0.runs + 1,
               !.extracted = e.claims,
               !.result = IF e.rejection # {} THEN The(e.rejection) ELSE Ok({}),
               !.returned = IF e.rejection # {} THEN The(e.rejection) ELSE Ok({})]

Extract(r, h, e) ==
    /\ req[r].pc = "handler"
    /\ req' = [req EXCEPT ![r] = extracted_request(req[r], h, e)]
    /\ UNCHANGED <<clock, advances, users, refresh_tokens, nextJti, known, rotated, oauthVars>>

ExtractAuthRequired(r) ==
    Extract(r, Call("AuthRequired"), from_request_parts_AuthRequired(req[r].claims))

ExtractMaybeAuth(r) ==
    Extract(r, Call("MaybeAuth"), from_request_parts_MaybeAuth(req[r].claims))

ExtractTierRequired(r, TIER) ==
    Extract(r, [Call("TierRequired") EXCEPT !.TIER = TIER],
            from_request_parts_TierRequired(req[r].claims, TIER))

\* the tier strings a Claims value can carry, and the values of TIER
TierStrings == {"free", "premium", "elite", "Premium", "ELITE", "gold", ""}
TIERS == 0..3

\* the extensions of a request: no Claims, or Claims of any tier string
AnyExtensions ==
    {{}} \cup {{[NoClaims EXCEPT !.sub = id, !.tier = t]} :
                  id \in {1, 2}, t \in TierStrings}

-----------------------------------------------------------------------------
(* SpecExtract: requests arrive at a handler with any extensions, and one of  *)
(* the three extractors runs on each                                          *)

InitExtract ==
    /\ clock = 0
    /\ advances = 0
    /\ users = InitUsers
    /\ refresh_tokens = <<>>
    /\ nextJti = 1
    /\ known = {}
    /\ req \in [Reqs -> {[IdleReq EXCEPT !.pc = "handler", !.claims = c] :
                            c \in AnyExtensions}]
    /\ rotated = {}
    /\ STATE_STORE = {}
    /\ nextState = 1
    /\ takeLog = <<>>
    /\ upserts = <<>>
    /\ codec = <<>>
    /\ callback = <<>>

NextExtract ==
    \/ \E r \in Reqs : ExtractAuthRequired(r)
    \/ \E r \in Reqs : ExtractMaybeAuth(r)
    \/ \E r \in Reqs, TIER \in TIERS : ExtractTierRequired(r, TIER)

SpecExtract == InitExtract /\ [][NextExtract]_vars

\* request r has been through extractor name
ExtractedBy(r, name) == req[r].pc = "done" /\ req[r].handler.name = name

\* the rank the tier string of a Claims value stands for: Free < Premium < Elite,
\* any other string is Free
tier_rank(s) ==
    CASE to_lowercase(s) = "premium" -> 1 [] to_lowercase(s) = "elite" -> 2 [] OTHER -> 0

\* C12: the tier guard answers Unauthorized when no claims are attached,
\* otherwise Forbidden exactly when the rank of the claims' tier is below the
\* rank of the required tier, otherwise it yields the claims unchanged
C12_TierGuardTwoStage ==
    \A r \in Reqs :
        ExtractedBy(r, "TierRequired") =>
            IF req[r].claims = {}
            THEN req[r].result.status = "Unauthorized" /\ req[r].extracted = {}
            ELSE IF tier_rank(The(req[r].claims).tier)
                       < rank(required_tier(req[r].handler.TIER))
                 THEN req[r].result.status = "Forbidden" /\ req[r].extracted = {}
                 ELSE req[r].result.status = "Ok" /\ req[r].extracted = req[r].claims

\* claims with an unknown tier string were refused the Premium gate, and claims
\* of tier elite passed the Elite gate unchanged
C12_UnknownTierRefused ==
    /\ \E r \in Reqs :
          /\ ExtractedBy(r, "TierRequired")
          /\ req[r].claims # {} /\ The(req[r].claims).tier = "gold"
          /\ req[r].handler.TIER = 1
          /\ req[r].result.status = "Forbidden"
    /\ \E r \in Reqs :
          /\ ExtractedBy(r, "TierRequired")
          /\ req[r].claims # {} /\ The(req[r].claims).tier = "elite"
          /\ req[r].handler.TIER = 2
          /\ req[r].extracted = req[r].claims

\* C13: the Required guard answers Unauthorized exactly when no claims are
\* attached and otherwise yields them; the Optional guard never fails and
\* yields exactly the attached claims, or None
C13_RequiredAndOptional ==
    \A r \in Reqs :
        /\ ExtractedBy(r, "AuthRequired") =>
              /\ (req[r].result.status = "Unauthorized") <=> (req[r].claims = {})
              /\ req[r].claims # {} =>
                    (req[r].result.status = "Ok" /\ req[r].extracted = req[r].claims)
        /\ ExtractedBy(r, "MaybeAuth") =>
              /\ req[r].result.status = "Ok"
              /\ req[r].extracted = req[r].claims

\* an anonymous request passed the Optional guard with None, and another was
\* refused by the Required guard
C13_AnonymousThroughOptional ==
    \E r \in Reqs, q \in Reqs :
        /\ ExtractedBy(r, "MaybeAuth")
        /\ req[r].claims = {} /\ req[r].extracted = {} /\ req[r].result = Ok({})
        /\ ExtractedBy(q, "AuthRequired")
        /\ req[q].claims = {} /\ req[q].result.status = "Unauthorized"

-----------------------------------------------------------------------------
(* SpecLogin: logins against a users table in which the account of a@b.com    *)
(* exists with a password, exists without one (OAuth only), or is absent      *)

UserTables ==
    {InitUsers,
     <<InitUsers[2]>>,
     <<[InitUsers[1] EXCEPT !.password_hash = {}], InitUsers[2]>>}

InitLogin ==
    /\ clock = 0
    /\ advances = 0
    /\ users \in UserTables
    /\ refresh_tokens = <<>>
    /\ nextJti = 1
    /\ known = {}
    /\ req = [r \in Reqs |-> IdleReq]
    /\ rotated = {}
    /\ STATE_STORE = {}
    /\ nextState = 1
    /\ takeLog = <<>>
    /\ upserts = <<>>
    /\ codec = <<>>
    /\ callback = <<>>

NextLogin ==
    \/ \E a \in Creds : Arrive(1, a, {})
    \/ RunLogin(1)
    \/ RunRestLogin(1)
    \/ Reset(1)

SpecLogin == InitLogin /\ [][NextLogin]_vars

\* no user has the email of login call h, or that user has no local password,
\* or the password of h is not that user's
LoginRefused(us, h) ==
    \/ user_by_email(us, h.email) = {}
    \/ The(user_by_email(us, h.email)).password_hash = {}
    \/ ~verify_password(h.password, The(The(user_by_email(us, h.email)).password_hash))

\* request r is answered by a login handler in this step
LoginAnswers(r) ==
    /\ req[r].pc = "handler" /\ req'[r].pc = "done"
    /\ req'[r].handler.name \in {"login", "rest_login"}

-----------------------------------------------------------------------------
(* Properties of logout and of the cookie slot *)

\* C15: whatever credential the request carries and whether or not the revoke
\* write fails, logout answers success and the auth cookies are cleared
C15_LogoutNeverFails ==
    \A r \in Reqs :
        (req[r].pc = "done" /\ req[r].handler.name \in {"logout", "rest_logout"})
            => /\ req[r].returned.status = "Ok"
               /\ req[r].action = {ClearAction}

\* the Set-Cookie headers the refresh of request r0 puts on the response
RefreshPart(r0) ==
    IF r0.refresh_cookies = {} THEN <<>>
    ELSE <<SetAction(The(r0.refresh_cookies).access, The(r0.refresh_cookies).refresh)>>

\* the Set-Cookie headers the action taken from the slot puts on the response
StagedPart(r0) == IF r0.action = {} THEN <<>> ELSE <<The(r0.action)>>

final_cookies(headers) == headers[Len(headers)]

\* C17: when a refresh succeeded and the handler staged an action, the refresh
\* cookies come first on the response and the staged action after them, so the
\* final cookie values are those of the staged action
C17_StagedActionWins ==
    \A r \in Reqs :
        (req[r].pc = "done" /\ req[r].refresh_cookies # {} /\ req[r].action # {})
            => /\ Len(req[r].cookies) = 2
               /\ req[r].cookies[1] = SetAction(The(req[r].refresh_cookies).access,
                                                The(req[r].refresh_cookies).refresh)
               /\ req[r].cookies[2] = The(req[r].action)
               /\ final_cookies(req[r].cookies) = The(req[r].action)

\* a request with a stale access token was refreshed and then logged in: the
\* response ends with the pair of the login
C17_LoginOverridesRefresh ==
    \E r \in Reqs :
        /\ req[r].pc = "done"
        /\ req[r].attempt = "ok"
        /\ req[r].handler.name = "login"
        /\ req[r].result.status = "Ok"
        /\ final_cookies(req[r].cookies) = The(req[r].action)
        /\ The(req[r].action).access # {The(req[r].refresh_cookies).access}

-----------------------------------------------------------------------------
(* Properties of the refresh records *)

\* the table holds an unrevoked record of token string tok for the user the
\* token names
Backed(table, tok) ==
    \E row \in RecordsOf(table, tok) : ~row.revoked /\ row.user_id = tok.claims.sub

\* C18: whenever a login or a transparent refresh hands a refresh token to the
\* client, an unrevoked record with that token string and that user's id exists
C18_HandedTokenHasRecord ==
    [][\A r \in Reqs :
          /\ (req[r].refresh_cookies = {} /\ req'[r].refresh_cookies # {}) =>
                Backed(refresh_tokens', The(req'[r].refresh_cookies).refresh)
          /\ (/\ req[r].pc = "handler" /\ req'[r].pc = "done"
              /\ req'[r].action # {} /\ The(req'[r].action).kind = "Set") =>
                Backed(refresh_tokens', The(The(req'[r].action).refresh))]_vars

\* C19: across logins, transparent refreshes and logouts no refresh record is
\* ever deleted or changed other than by revocation, and a revoked record
\* stays revoked: the table only grows and the revoked flag is monotone
C19_RecordsKeptRevokedMonotone ==
    [][/\ Len(refresh_tokens') >= Len(refresh_tokens)
       /\ \A i \in 1..Len(refresh_tokens) :
             /\ refresh_tokens'[i].id = refresh_tokens[i].id
             /\ refresh_tokens'[i].user_id = refresh_tokens[i].user_id
             /\ refresh_tokens'[i].token_hash = refresh_tokens[i].token_hash
             /\ refresh_tokens'[i].expires_at = refresh_tokens[i].expires_at
             /\ refresh_tokens[i].revoked => refresh_tokens'[i].revoked]_vars

\* a rotation has revoked one record and a later record was created after it
C19_RevokedThenCreated ==
    \E i, j \in 1..Len(refresh_tokens) :
        /\ i < j
        /\ refresh_tokens[i].revoked
        /\ refresh_tokens[i].token_hash \in rotated
        /\ ~refresh_tokens[j].revoked

-----------------------------------------------------------------------------
(* OAuth user upsert: auth/oauth.rs upsert_oauth_user (lines 189-264).        *)
(* Every statement is its own step, as the function holds no transaction;    *)
(* calls in different slots may overlap.                                      *)

Calls == 1..MaxCalls

\* OAuthUserInfo (oauth.rs lines 179-185); provider is OAuthProvider::as_str
OAuthUserInfos ==
    [provider : {"google", "github"}, provider_id : {"p1", "p2"},
     email : {"a@b.com", "neo@b.com"}, display_name : {"Neo", "Neo A"},
     avatar_url : {{}, {"pic"}}]

\* info.email.split('@').next().unwrap_or("user")
username_of(email) ==
    CASE email = "a@b.com" -> "a"
      [] email = "neo@b.com" -> "neo"
      [] email = "admin@co.com" -> "admin"
      [] email = "nobody@x.com" -> "nobody"
      [] OTHER -> email

\* a row of users with the columns upsert_oauth_user reads and writes
UserRow(id, email, display_name, provider, provider_id, avatar_url, password_hash) ==
    [id |-> id, username |-> username_of(email), email |-> email,
     display_name |-> display_name, oauth_provider |-> provider,
     oauth_provider_id |-> provider_id, avatar_url |-> avatar_url,
     role |-> "user", tier |-> "free", password_hash |-> password_hash]

\* a lookup that never finds the linked user
select_by_oauth_blind(us, provider_str, provider_id) == {}

\* SELECT id, role, tier FROM users WHERE oauth_provider = $1 AND
\* oauth_provider_id = $2, with fetch_optional
select_by_oauth(us, provider_str, provider_id) ==
    LET hits == {i \in 1..Len(us) :
                    /\ us[i].oauth_provider = {provider_str}
                    /\ us[i].oauth_provider_id = {provider_id}}
    IN IF hits = {} THEN {} ELSE {us[CHOOSE i \in hits : \A j \in hits : i <= j]}

\* UPDATE users SET display_name = $2, avatar_url = $3 WHERE id = $1
update_oauth_profile(us, id, display_name, avatar_url) ==
    [i \in 1..Len(us) |->
        IF us[i].id = id
        THEN [us[i] EXCEPT !.display_name = display_name, !.avatar_url = avatar_url]
        ELSE us[i]]

\* a link that also resets the account to the defaults of a new user
link_oauth_resetting(us, id, provider_str, provider_id, avatar_url) ==
    [i \in 1..Len(us) |->
        IF us[i].id = id
        THEN [us[i] EXCEPT !.oauth_provider = {provider_str},
                           !.oauth_provider_id = {provider_id},
                           !.avatar_url = avatar_url,
                           !.role = "user", !.tier = "free"]
        ELSE us[i]]

\* UPDATE users SET oauth_provider = $2, oauth_provider_id = $3, avatar_url = $4
\* WHERE id = $1
link_oauth(us, id, provider_str, provider_id, avatar_url) ==
    [i \in 1..Len(us) |->
        IF us[i].id = id
        THEN [us[i] EXCEPT !.oauth_provider = {provider_str},
                           !.oauth_provider_id = {provider_id},
                           !.avatar_url = avatar_url]
        ELSE us[i]]

\* INSERT INTO users (username, email, display_name, oauth_provider,
\* oauth_provider_id, avatar_url) ... RETURNING id, role, tier
insert_oauth_user(us, info) ==
    Append(us, UserRow(Len(us) + 1, info.email, info.display_name, {info.provider},
                       {info.provider_id}, info.avatar_url, {}))

\* Ok((row.id, row.role, row.tier))
UpsertOk(row) == Ok({[user_id |-> row.id, role |-> row.role, tier |-> row.tier]})

\* a call slot: pc is the statement the call runs next, row the row a lookup
\* found; after, fresh, path, len_before and len_after are history: the calls
\* that had returned when this one began, whether no row had its identity or
\* its email then, the branch it took and the size of users around it
IdleCall ==
    [pc |-> "idle", info |-> {}, row |-> {}, result |-> NoResult, after |-> {},
     fresh |-> FALSE, path |-> "none", len_before |-> 0, len_after |-> 0,
     linked_then |-> {}, by_email_then |-> {}]

Returned(c0, result, path, us) ==
    [c0 EXCEPT !.pc = "done", !.result = result, !.path = path, !.len_after = Len(us)]

\* oauth_callback calls upsert_oauth_user(db, &user_info) (oauth_callback.rs 89)
UpsertCall(c, info) ==
    /\ upserts[c].pc = "idle"
    /\ upserts' = [upserts EXCEPT ![c] =
          [@ EXCEPT !.pc = "by_oauth", !.info = {info},
                    !.after = {d \in Calls : upserts[d].pc = "done"},
                    !.fresh = /\ select_by_oauth(users, info.provider, info.provider_id) = {}
                              /\ user_by_email(users, info.email) = {},
                    !.len_before = Len(users),
                    !.linked_then = select_by_oauth(users, info.provider, info.provider_id),
                    !.by_email_then = user_by_email(users, info.email)]]
    /\ UNCHANGED <<clock, advances, sessionVars, STATE_STORE, nextState, takeLog, codec, callback>>

\* lines 195-203: find the user by provider and provider id
UpsertByOAuth(c, dbOk) ==
    /\ upserts[c].pc = "by_oauth"
    /\ LET info == The(upserts[c].info)
           existing == select_by_oauth(users, info.provider, info.provider_id)
       IN upserts' = [upserts EXCEPT ![c] =
             IF ~dbOk THEN Returned(@, Err("String", "DB lookup failed"), "none", users)
             ELSE IF existing # {} THEN [@ EXCEPT !.pc = "update", !.row = existing]
             ELSE [@ EXCEPT !.pc = "by_email"]]
    /\ UNCHANGED <<clock, advances, sessionVars, STATE_STORE, nextState, takeLog, codec, callback>>

\* lines 205-218: the linked user exists; update display name and avatar
UpsertUpdate(c, dbOk) ==
    /\ upserts[c].pc = "update"
    /\ LET info == The(upserts[c].info)
           row == The(upserts[c].row)
           us == IF dbOk
                 THEN update_oauth_profile(users, row.id, info.display_name, info.avatar_url)
                 ELSE users
       IN /\ users' = us
          /\ upserts' = [upserts EXCEPT ![c] =
                IF dbOk THEN Returned(@, UpsertOk(row), "update", us)
                ELSE Returned(@, Err("String", "DB update failed"), "none", us)]
    /\ UNCHANGED <<clock, advances, refresh_tokens, nextJti, known, req, rotated,
                   STATE_STORE, nextState, takeLog, codec, callback>>

\* lines 220-227: find a user with the same email
UpsertByEmail(c, dbOk) ==
    /\ upserts[c].pc = "by_email"
    /\ LET info == The(upserts[c].info)
           by_email == user_by_email(users, info.email)
       IN upserts' = [upserts EXCEPT ![c] =
             IF ~dbOk THEN Returned(@, Err("String", "DB email lookup failed"), "none", users)
             ELSE IF by_email # {} THEN [@ EXCEPT !.pc = "link", !.row = by_email]
             ELSE [@ EXCEPT !.pc = "create"]]
    /\ UNCHANGED <<clock, advances, sessionVars, STATE_STORE, nextState, takeLog, codec, callback>>

\* lines 229-243: link the OAuth identity to the account with that email
UpsertLink(c, dbOk) ==
    /\ upserts[c].pc = "link"
    /\ LET info == The(upserts[c].info)
           row == The(upserts[c].row)
           us == IF dbOk
                 THEN link_oauth(users, row.id, info.provider, info.provider_id,
                                 info.avatar_url)
                 ELSE users
       IN /\ users' = us
          /\ upserts' = [upserts EXCEPT ![c] =
                IF dbOk THEN Returned(@, UpsertOk(row), "link", us)
                ELSE Returned(@, Err("String", "DB link failed"), "none", us)]
    /\ UNCHANGED <<clock, advances, refresh_tokens, nextJti, known, req, rotated,
                   STATE_STORE, nextState, takeLog, codec, callback>>

\* lines 245-263: create the user
UpsertCreate(c, dbOk) ==
    /\ upserts[c].pc = "create"
    /\ LET info == The(upserts[c].info)
           us == IF dbOk THEN insert_oauth_user(users, info) ELSE users
       IN /\ users' = us
          /\ upserts' = [upserts EXCEPT ![c] =
                IF dbOk THEN Returned(@, UpsertOk(us[Len(us)]), "create", us)
                ELSE Returned(@, Err("String", "DB insert failed"), "none", us)]
    /\ UNCHANGED <<clock, advances, refresh_tokens, nextJti, known, req, rotated,
                   STATE_STORE, nextState, takeLog, codec, callback>>

\* users before the calls: none, a local account, a local account that was
\* promoted, an account already linked
UpsertTables ==
    { <<>>,
      << UserRow(1, "a@b.com", "A", {}, {}, {}, {hash_password("hunter22")}) >>,
      << [UserRow(1, "a@b.com", "A", {}, {}, {}, {hash_password("hunter22")})
            EXCEPT !.role = "admin", !.tier = "premium"] >>,
      << UserRow(1, "a@b.com", "A", {"google"}, {"p1"}, {}, {}) >> }

InitUpsert ==
    /\ clock = 0
    /\ advances = 0
    /\ users \in UpsertTables
    /\ refresh_tokens = <<>>
    /\ nextJti = 1
    /\ known = {}
    /\ req = [r \in Reqs |-> IdleReq]
    /\ rotated = {}
    /\ STATE_STORE = {}
    /\ nextState = 1
    /\ takeLog = <<>>
    /\ upserts = [c \in Calls |-> IdleCall]
    /\ codec = <<>>
    /\ callback = <<>>

NextUpsert ==
    \/ \E c \in Calls, info \in OAuthUserInfos : UpsertCall(c, info)
    \/ \E c \in Calls, dbOk \in BOOLEAN : UpsertByOAuth(c, dbOk)
    \/ \E c \in Calls, dbOk \in BOOLEAN : UpsertUpdate(c, dbOk)
    \/ \E c \in Calls, dbOk \in BOOLEAN : UpsertByEmail(c, dbOk)
    \/ \E c \in Calls, dbOk \in BOOLEAN : UpsertLink(c, dbOk)
    \/ \E c \in Calls, dbOk \in BOOLEAN : UpsertCreate(c, dbOk)

SpecUpsert == InitUpsert /\ [][NextUpsert]_vars

\* call c began after call d had returned, with the same OAuthUserInfo, d
\* having met no user of that identity or email; both returned Ok, and every
\* other call had returned before d began
CalledTwice(d, c) ==
    /\ upserts[d].pc = "done" /\ upserts[c].pc = "done"
    /\ d \in upserts[c].after
    /\ \A e \in Calls \ {d, c} :
          upserts[e].pc = "idle" \/ (upserts[e].pc = "done" /\ e \in upserts[d].after)
    /\ upserts[d].fresh
    /\ upserts[c].info = upserts[d].info
    /\ upserts[d].result.status = "Ok" /\ upserts[c].result.status = "Ok"

\* rows of users that carry the OAuth identity or the email of info
RowsOfInfo(us, info) ==
    {i \in 1..Len(us) :
        \/ us[i].oauth_provider = {info.provider}
           /\ us[i].oauth_provider_id = {info.provider_id}
        \/ us[i].email = info.email}

\* C20: upsert_oauth_user called twice with identical OAuthUserInfo for a user
\* that does not yet exist creates exactly one user row on the first call; the
\* second call updates that row and returns the same user id without creating
\* another row
C20_UpsertIdempotent ==
    \A d, c \in Calls :
        CalledTwice(d, c) =>
            /\ upserts[d].path = "create"
            /\ upserts[d].len_after = upserts[d].len_before + 1
            /\ upserts[c].path = "update"
            /\ upserts[c].len_after = upserts[c].len_before
            /\ upserts[c].result.user = upserts[d].result.user
            /\ Cardinality(RowsOfInfo(users, The(upserts[d].info))) = 1
            /\ \A i \in RowsOfInfo(users, The(upserts[d].info)) :
                  /\ {[user_id |-> users[i].id, role |-> users[i].role,
                       tier |-> users[i].tier]} = upserts[c].result.user
                  /\ users[i].display_name = The(upserts[c].info).display_name
                  /\ users[i].avatar_url = The(upserts[c].info).avatar_url

\* two calls in a row with the same info for a new user have both returned Ok
C20_SecondCallReturned == \E d, c \in Calls : CalledTwice(d, c)

\* call c returns Ok in this step, having run alone: every other call is
\* idle or had returned before c began
ReturnsAlone(c) ==
    /\ upserts[c].pc # "done" /\ upserts'[c].pc = "done"
    /\ upserts'[c].result.status = "Ok"
    /\ \A e \in Calls \ {c} :
          upserts[e].pc = "idle" \/ (upserts[e].pc = "done" /\ e \in upserts[c].after)

\* C21: when a user with the email of the OAuthUserInfo exists and no user is
\* linked to its (provider, provider_id), upsert_oauth_user links the identity
\* to that row, returns its id with its role and tier as they were, and
\* creates no user row
C21_EmailMatchLinks ==
    [][\A c \in Calls :
          (/\ ReturnsAlone(c)
           /\ upserts[c].linked_then = {}
           /\ upserts[c].by_email_then # {}) =>
             LET old == The(upserts[c].by_email_then)
                 info == The(upserts[c].info)
             IN /\ upserts'[c].path = "link"
                /\ Len(users') = upserts[c].len_before
                /\ upserts'[c].result.user =
                      {[user_id |-> old.id, role |-> old.role, tier |-> old.tier]}
                /\ \E i \in 1..Len(users') :
                      /\ users'[i].id = old.id
                      /\ users'[i].oauth_provider = {info.provider}
                      /\ users'[i].oauth_provider_id = {info.provider_id}
                      /\ users'[i].role = old.role /\ users'[i].tier = old.tier
                      /\ users'[i].email = old.email
                      /\ users'[i].password_hash = old.password_hash]_vars

\* a promoted local account has been linked by a call that ran alone
C21_PromotedAccountLinked ==
    \E c \in Calls :
        /\ upserts[c].pc = "done" /\ upserts[c].path = "link"
        /\ upserts[c].after = {}
        /\ \A e \in Calls \ {c} : upserts[e].pc = "idle"
        /\ upserts[c].by_email_then # {}
        /\ The(upserts[c].by_email_then).tier = "premium"
        /\ upserts[c].result.user = {[user_id |-> 1, role |-> "admin", tier |-> "premium"]}

-----------------------------------------------------------------------------
(* Properties of the admin gate of update_user_tier, checked under SpecCaller *)

\* request r is answered by one of the two update_user_tier handlers in this step
TierAnswers(r) ==
    /\ req[r].pc = "handler" /\ req'[r].pc = "done"
    /\ req'[r].handler.name \in {"update_user_tier", "rest_update_user_tier"}

\* the tier column of every row of users
tiers_of(us) == [i \in 1..Len(us) |-> us[i].tier]

\* C22: update_user_tier answers a caller without credentials with
\* Unauthorized and an authenticated caller whose role is not "admin" with
\* Forbidden, whatever the user_id and the tier argument, and changes no tier in
\* either case; a tier outside {free, premium, elite} is never stored
C22_TierChangeAdminOnly ==
    [][\A r \in Reqs :
          TierAnswers(r) =>
             /\ (req[r].access = {} /\ req[r].claims = {}) =>
                   /\ req'[r].returned.status = "Unauthorized"
                   /\ tiers_of(users') = tiers_of(users)
             /\ (/\ req[r].attempt = "none" /\ req[r].claims # {}
                 /\ The(req[r].claims).role # "admin") =>
                   /\ req'[r].returned.status = "Forbidden"
                   /\ tiers_of(users') = tiers_of(users)
             /\ \A i \in 1..Len(users') : users'[i].tier \in valid_tiers]_vars

-----------------------------------------------------------------------------
(* The token codec on its own: auth/jwt.rs under any lifetime settings, any   *)
(* inputs and any validation time                                             *)

\* str::parse::<i64> on the strings the model uses
parse_i64(v) ==
    CASE v = "15" -> {15} [] v = "7" -> {7} [] v = "1" -> {1} [] v = "0" -> {0}
      [] v = "-5" -> {0 - 5}
      [] OTHER -> {}

\* std::env::var(..).ok().and_then(|v| v.parse().ok()).unwrap_or(default)
env_or(var, default) ==
    IF var = {} \/ parse_i64(The(var)) = {} THEN default ELSE The(parse_i64(The(var)))

\* values of JWT_ACCESS_TOKEN_EXPIRY_MINUTES and JWT_REFRESH_TOKEN_EXPIRY_DAYS:
\* unset, integers, a string that is no integer
MinuteSettings == {{}, {"1"}, {"0"}, {"-5"}, {"abc"}}
DaySettings == {{}, {"0"}}

\* create_access_token under the settings env
create_access_token_env(env, user_id, email, role, tier, now, jti) ==
    encode([sub |-> user_id, email |-> email, role |-> role, tier |-> tier,
            iat |-> Timestamp(now),
            exp |-> Timestamp(now + Minutes(env_or(env.minutes, access_token_expiry_minutes))),
            jti |-> jti])

\* create_refresh_token under the settings env
create_refresh_token_env(env, user_id, email, role, tier, now, jti) ==
    LET expires_at == now + Days(env_or(env.days, refresh_token_expiry_days))
    IN [token |-> encode([sub |-> user_id, email |-> email, role |-> role,
                          tier |-> tier, iat |-> Timestamp(now),
                          exp |-> Timestamp(expires_at), jti |-> jti]),
        expires_at |-> expires_at]

\* the (user_id, email, role, tier) a token is created for
TokenInputs ==
    [user_id : {1, 2}, email : {"a@b.com"}, role : {"user", "admin"},
     tier : {"free", "premium"}]

\* the codec keeps the tokens it met, each with how it came to be and the
\* inputs and the instant of its creation
Made(kind, token, inputs, now) ==
    [kind |-> kind, token |-> token, inputs |-> inputs, at |-> now]

CodecIssueAccess(i) ==
    /\ Len(codec.tokens) < MaxTokens
    /\ nextJti <= MaxJti
    /\ codec' = [codec EXCEPT !.tokens = Append(@,
          Made("access",
               create_access_token_env(codec.env, i.user_id, i.email, i.role, i.tier,
                                       clock, nextJti),
               {i}, clock))]
    /\ nextJti' = nextJti + 1
    /\ UNCHANGED <<clock, advances, users, refresh_tokens, known, req, rotated,
                   STATE_STORE, nextState, takeLog, upserts, callback>>

CodecIssueRefresh(i) ==
    /\ Len(codec.tokens) < MaxTokens
    /\ nextJti <= MaxJti
    /\ codec' = [codec EXCEPT !.tokens = Append(@,
          Made("refresh",
               create_refresh_token_env(codec.env, i.user_id, i.email, i.role, i.tier,
                                        clock, nextJti).token,
               {i}, clock))]
    /\ nextJti' = nextJti + 1
    /\ UNCHANGED <<clock, advances, users, refresh_tokens, known, req, rotated,
                   STATE_STORE, nextState, takeLog, upserts, callback>>

\* a token from elsewhere: any string, signed with JWT_SECRET or not, that
\* expired an hour ago or expires in an hour (the test expired_token_rejected
\* builds the first with a valid signature)
CodecForeign(wf, sig, expired) ==
    /\ Len(codec.tokens) < MaxTokens
    /\ codec' = [codec EXCEPT !.tokens = Append(@,
          Made("foreign",
               [wf |-> wf, sig |-> sig,
                claims |-> [NoClaims EXCEPT
                    !.sub = 1, !.email = "a@b.com", !.role = "user", !.tier = "free",
                    !.iat = Timestamp(clock) - 7200,
                    !.exp = IF expired THEN Timestamp(clock) - 3600
                                       ELSE Timestamp(clock) + 3600]],
               {}, clock))]
    /\ UNCHANGED <<clock, advances, sessionVars, STATE_STORE, nextState, takeLog, upserts, callback>>

\* validate_access_token(&token) at the current instant
CodecValidate(k) ==
    /\ k \in 1..Len(codec.tokens)
    /\ codec' = [codec EXCEPT !.last =
          {[made |-> codec.tokens[k], now |-> clock,
            result |-> validate_access_token(codec.tokens[k].token, clock)]}]
    /\ UNCHANGED <<clock, advances, sessionVars, STATE_STORE, nextState, takeLog, upserts, callback>>

\* half a minute, a second more than the leeway, the default access lifetime
CodecJumps == {Secs(30), Secs(Leeway + 1), Minutes(access_token_expiry_minutes)}

InitCodec ==
    /\ clock = 0
    /\ advances = 0
    /\ users = InitUsers
    /\ refresh_tokens = <<>>
    /\ nextJti = 1
    /\ known = {}
    /\ req = [r \in Reqs |-> IdleReq]
    /\ rotated = {}
    /\ STATE_STORE = {}
    /\ nextState = 1
    /\ takeLog = <<>>
    /\ upserts = <<>>
    /\ \E m \in MinuteSettings, d \in DaySettings :
          codec = [env |-> [minutes |-> m, days |-> d], tokens |-> <<>>, last |-> {}]
    /\ callback = <<>>

NextCodec ==
    \/ \E i \in TokenInputs : CodecIssueAccess(i)
    \/ \E i \in TokenInputs : CodecIssueRefresh(i)
    \/ \E wf \in BOOLEAN, sig \in BOOLEAN, expired \in BOOLEAN : CodecForeign(wf, sig, expired)
    \/ \E k \in 1..MaxTokens : CodecValidate(k)
    \/ \E d \in CodecJumps : Advance(d)

SpecCodec == InitCodec /\ [][NextCodec]_vars

\* C23: validate_access_token fails for every token whose expires_at is in the
\* past at the time of validation, whatever its signature, and extracts no
\* claims from it
C23_ExpiredTokenFails ==
    \A v \in codec.last :
        v.made.token.claims.exp < Timestamp(v.now) => v.result = {}

\* C24: every token create_access_token or create_refresh_token issues has
\* expires_at > issued_at, and validating an access token at the instant it
\* was issued returns claims with the subject, email, role and tier given,
\* under every lifetime setting that parses as an integer
C24_IssuedTokenRoundTrips ==
    /\ \A k \in 1..Len(codec.tokens) :
          codec.tokens[k].kind \in {"access", "refresh"} =>
             codec.tokens[k].token.claims.exp > codec.tokens[k].token.claims.iat
    /\ \A v \in codec.last :
          (v.made.kind = "access" /\ v.now = v.made.at) =>
             /\ v.result # {}
             /\ \A c \in v.result, i \in v.made.inputs :
                   /\ c.sub = i.user_id /\ c.email = i.email
                   /\ c.role = i.role /\ c.tier = i.tier

-----------------------------------------------------------------------------
(* Properties of the transparent refresh *)

\* request r has minted a new pair from the refresh token it carries
Minted(r) == req[r].refresh # {} /\ req[r].new_refresh # {}

\* C25: under any interleaving of concurrent requests one refresh record
\* authorizes at most one rotation: no two requests mint a new pair from the
\* same refresh token, and the new refresh tokens minted from one token never
\* have more than one unrevoked record
C25_OneRotationPerRecord ==
    \A r, q \in Reqs :
        (/\ r # q
         /\ Minted(r) /\ Minted(q)
         /\ req[r].refresh = req[q].refresh) =>
           /\ req[r].stored # req[q].stored
           /\ ~(/\ Backed(refresh_tokens, The(req[r].new_refresh))
                /\ Backed(refresh_tokens, The(req[q].new_refresh)))

\* claims a and b name the same subject, email, role and tier
SameIdentity(a, b) ==
    a.sub = b.sub /\ a.email = b.email /\ a.role = b.role /\ a.tier = b.tier

\* C26: the access and the refresh token a transparent refresh mints, and the
\* claims it attaches, carry exactly the subject, email, role and tier of the
\* refresh token it replaces, whatever the users table holds by then
C26_RefreshCarriesIdentity ==
    [][\A r \in Reqs :
          /\ (req[r].pc = "revoke" /\ req'[r].pc = "insert") =>
                /\ SameIdentity(The(req'[r].new_access).claims, The(req[r].refresh).claims)
                /\ SameIdentity(The(req'[r].new_refresh).claims, The(req[r].refresh).claims)
          /\ (req[r].attempt # "ok" /\ req'[r].attempt = "ok") =>
                /\ SameIdentity(The(req'[r].claims), The(req[r].refresh).claims)
                /\ SameIdentity(The(req'[r].refresh_cookies).access.claims,
                                The(req[r].refresh).claims)
                /\ SameIdentity(The(req'[r].refresh_cookies).refresh.claims,
                                The(req[r].refresh).claims)]_vars

\* a refresh has succeeded for a user whose stored tier is no longer the tier
\* of the session's tokens
C26_RefreshedAfterTierChange ==
    \E r \in Reqs :
        /\ req[r].attempt = "ok"
        /\ user_by_id(users, The(req[r].claims).sub) # {}
        /\ The(user_by_id(users, The(req[r].claims).sub)).tier # The(req[r].claims).tier

\* C27: for a request without an access credential the middleware attempts
\* no refresh, even when the request carries a valid unrevoked refresh token:
\* no record is read, revoked or inserted before the handler runs, no claims
\* are attached and no refresh cookies are set
C27_NoAccessNoRefresh ==
    [][\A r \in Reqs :
          (req'[r].access = {} /\ req'[r].pc # "idle") =>
             /\ req'[r].pc \in {"handler", "done"}
             /\ req'[r].attempt = "none"
             /\ req'[r].claims = {}
             /\ req'[r].rclaims = {}
             /\ req'[r].stored = 0
             /\ req'[r].new_access = {} /\ req'[r].new_refresh = {}
             /\ req'[r].refresh_cookies = {}
             /\ req[r].pc = "idle" => refresh_tokens' = refresh_tokens]_vars

\* a request without an access credential, carrying a refresh token that is
\* valid and has an unrevoked record, has reached its handler
C27_RefreshTokenAlone ==
    \E r \in Reqs :
        /\ req[r].pc = "handler"
        /\ req[r].access = {} /\ req[r].refresh # {}
        /\ validate_access_token(The(req[r].refresh), clock) # {}
        /\ Backed(refresh_tokens, The(req[r].refresh))

\* C28: a transparent refresh that returns no token pair has left the
\* credential store as it was: it fails before its first write, and the step
\* in which it fails revokes and inserts nothing
C28_FailedRefreshWritesNothing ==
    [][\A r \in Reqs :
          (req[r].attempt # "failed" /\ req'[r].attempt = "failed") =>
             /\ req'[r].failed_at \in {"decode", "select", "revoked"}
             /\ refresh_tokens' = refresh_tokens]_vars

-----------------------------------------------------------------------------
(* The OAuth callback: auth/oauth_callback.rs (lines 21-119).  Every await is *)
(* a step; the upsert runs in call slot 1 with the steps of upsert_oauth_user *)

\* OAuthProvider::parse_provider (models.rs lines 63-69) on the strings the
\* model uses: Some(provider) == {provider.as_str()}
parse_provider(p) ==
    CASE p = "google" -> {"google"}
      [] p = "Google" -> {"google"}
      [] p = "github" -> {"github"}
      [] p = "GitHub" -> {"github"}
      [] OTHER -> {}

\* the {provider} segment of /auth/callback/{provider}
ProviderStrings == {"google", "GitHub", "gitlab"}

\* what the provider's user-info endpoint can answer; email "" is
\* info.email.unwrap_or_default() of a profile without email
FetchedInfos(provider) ==
    {[provider |-> provider, provider_id |-> "p1", email |-> e,
      display_name |-> "Neo", avatar_url |-> {"pic"}] : e \in {"a@b.com", ""}}

IdleCallback ==
    [pc |-> "idle", provider |-> {}, state |-> 0, verifier |-> {}, info |-> {},
     result |-> "", cookies |-> <<>>]

\* Err(error_redirect(msg))
Redirected(cb, msg) == [cb EXCEPT !.pc = "done", !.result = msg]

\* lines 29-35: the provider is parsed, then the state is taken
CallbackArrive(p, s) ==
    /\ callback.pc = "idle"
    /\ Len(takeLog) < MaxTakes
    /\ LET provider == parse_provider(p)
           entry == {e \in STATE_STORE : e.state = s}
           taken == take_verifier(STATE_STORE, s, clock)
           cb == [IdleCallback EXCEPT !.provider = provider, !.state = s]
       IN IF provider = {}
          THEN /\ callback' = Redirected(cb, "Unknown OAuth provider")
               /\ UNCHANGED <<STATE_STORE, takeLog>>
          ELSE /\ STATE_STORE' = taken.store
               /\ takeLog' = Append(takeLog,
                      [state |-> s,
                       age |-> IF entry = {} THEN {} ELSE {clock - The(entry).created_at},
                       result |-> taken.result])
               /\ callback' = IF taken.result = {}
                              THEN Redirected(cb, "Invalid or expired OAuth state")
                              ELSE [cb EXCEPT !.pc = "exchange", !.verifier = taken.result]
    /\ UNCHANGED <<clock, advances, sessionVars, nextState, upserts, codec>>

\* lines 37-47: build the client, exchange the code with the verifier
CallbackExchange(outcome) ==
    /\ callback.pc = "exchange"
    /\ callback' = CASE outcome = "config" -> Redirected(callback, "OAuth config error")
                     [] outcome = "exchange" -> Redirected(callback, "Token exchange failed")
                     [] OTHER -> [callback EXCEPT !.pc = "userinfo"]
    /\ UNCHANGED <<clock, advances, sessionVars, STATE_STORE, nextState, takeLog,
                   upserts, codec>>

\* lines 51-85: fetch the user info; a profile without email is refused
CallbackUserInfo(got) ==
    /\ callback.pc = "userinfo"
    /\ \A i \in got : callback.provider = {i.provider}
    /\ callback' = IF got = {} THEN Redirected(callback, "user info request failed")
                   ELSE IF The(got).email = ""
                        THEN Redirected(callback,
                                 "Could not retrieve email from OAuth provider")
                   ELSE [callback EXCEPT !.pc = "upsert", !.info = got]
    /\ UNCHANGED <<clock, advances, sessionVars, STATE_STORE, nextState, takeLog,
                   upserts, codec>>

\* line 89: upsert_oauth_user is called
CallbackUpsert ==
    /\ callback.pc = "upsert"
    /\ UpsertCall(1, The(callback.info))
    /\ UNCHANGED callback

\* lines 89-118: the upsert has returned; the tokens are created, the refresh
\* record is inserted and the cookies are set on the redirect to "/"
CallbackLogin(okA, okR, dbOk) ==
    /\ callback.pc = "upsert"
    /\ upserts[1].pc = "done"
    /\ nextJti + 1 <= MaxJti
    /\ LET res == upserts[1].result
           row == The(res.user)
           info == The(callback.info)
           tier == from_str_or_default(row.tier)
           jwt_access == create_access_token(row.user_id, info.email, row.role,
                                             as_str(tier), clock, nextJti)
           refresh == create_refresh_token(row.user_id, info.email, row.role,
                                           as_str(tier), clock, nextJti + 1)
           issued == res.status = "Ok" /\ okA /\ okR
           stored == issued /\ dbOk
       IN /\ callback' =
                IF res.status # "Ok" THEN Redirected(callback, res.msg)
                ELSE IF ~(okA /\ okR) THEN Redirected(callback, "JWT error")
                ELSE IF ~dbOk THEN Redirected(callback, "DB error")
                ELSE [callback EXCEPT !.pc = "done", !.result = "ok",
                          !.cookies = set_auth_cookies(<<>>, jwt_access, refresh.token)]
          /\ nextJti' = IF issued THEN nextJti + 2 ELSE nextJti
          /\ refresh_tokens' =
                IF stored
                THEN insert(refresh_tokens, row.user_id, refresh.token, refresh.expires_at)
                ELSE refresh_tokens
          /\ known' = IF stored THEN known \cup {jwt_access, refresh.token} ELSE known
    /\ upserts' = [upserts EXCEPT ![1] = IdleCall]
    /\ UNCHANGED <<clock, advances, users, req, rotated, STATE_STORE, nextState,
                   takeLog, codec>>

\* the response has been sent
CallbackReset ==
    /\ callback.pc = "done"
    /\ callback' = IdleCallback
    /\ UNCHANGED <<clock, advances, sessionVars, STATE_STORE, nextState, takeLog,
                   upserts, codec>>

\* a callback is answered within seconds: the minutes pass between callbacks
CallbackPass(d) == callback.pc = "idle" /\ Advance(d)

InitCallback ==
    /\ clock = 0
    /\ advances = 0
    /\ users \in UpsertTables
    /\ refresh_tokens = <<>>
    /\ nextJti = 1
    /\ known = {}
    /\ req = [r \in Reqs |-> IdleReq]
    /\ rotated = {}
    /\ STATE_STORE = {}
    /\ nextState = 1
    /\ takeLog = <<>>
    /\ upserts = [c \in Calls |-> IdleCall]
    /\ codec = <<>>
    /\ callback = IdleCallback

NextCallback ==
    \/ StoreState
    \/ \E p \in ProviderStrings, s \in IssuedStates : CallbackArrive(p, s)
    \/ \E outcome \in {"config", "exchange", "ok"} : CallbackExchange(outcome)
    \/ \E got \in {{}} \cup {{i} : i \in FetchedInfos("google") \cup FetchedInfos("github")} :
          CallbackUserInfo(got)
    \/ CallbackUpsert
    \/ \E dbOk \in BOOLEAN : UpsertByOAuth(1, dbOk)
    \/ \E dbOk \in BOOLEAN : UpsertUpdate(1, dbOk)
    \/ \E dbOk \in BOOLEAN : UpsertByEmail(1, dbOk)
    \/ \E dbOk \in BOOLEAN : UpsertLink(1, dbOk)
    \/ \E dbOk \in BOOLEAN : UpsertCreate(1, dbOk)
    \/ \E okA \in BOOLEAN, okR \in BOOLEAN, dbOk \in BOOLEAN : CallbackLogin(okA, okR, dbOk)
    \/ CallbackReset
    \/ \E d \in OAuthJumps : CallbackPass(d)

SpecCallback == InitCallback /\ [][NextCallback]_vars

\* the states the cache holds
StoredStates(store) == {e.state : e \in store}

\* C29: a callback with a recognised provider takes the state out of the cache
\* before anything else: from its first step to its answer, whatever the later
\* steps do, its state is not in the cache, and a callback that carries a state
\* an earlier callback took is rejected; a callback whose provider is not
\* recognised leaves the cache as it was
C29_StateConsumedFirst ==
    [][/\ (callback'.pc # "idle" /\ callback'.provider # {}) =>
             callback'.state \notin StoredStates(STATE_STORE')
       /\ (callback.pc = "idle" /\ callback'.pc # "idle") =>
             /\ callback'.provider = {} =>
                   /\ STATE_STORE' = STATE_STORE
                   /\ callback'.result = "Unknown OAuth provider"
             /\ (/\ callback'.provider # {}
                 /\ \E k \in 1..Len(takeLog) : takeLog[k].state = callback'.state) =>
                   /\ callback'.pc = "done"
                   /\ callback'.result = "Invalid or expired OAuth state"]_vars

\* a callback whose state was stored and taken failed at the code exchange,
\* and the retry with the same state has been rejected
C29_RetryRejected ==
    /\ callback.pc = "done"
    /\ callback.result = "Invalid or expired OAuth state"
    /\ \E k \in 1..Len(takeLog) :
          /\ k < Len(takeLog)
          /\ takeLog[k].state = callback.state
          /\ takeLog[k].result # {}
    /\ users \in UpsertTables
    /\ refresh_tokens = <<>>

-----------------------------------------------------------------------------
(* The cookie slot under concurrent requests: the handler's staging and the   *)
(* middleware's take (middleware.rs lines 39-63) as separate steps            *)

\* one slot shared by every request of the process
slot_shared(r) == 1

\* the CookieSlot the handler of request r writes and the middleware of
\* request r takes from: the one created for r and put in r's extensions
\* (lines 39-41)
slot_of(r) == r

\* the request as handler h sees it, with the slot it reaches
SeenSlot(r, h) == [req[r] EXCEPT !.handler = h, !.slot = req[slot_of(r)].slot]

\* next.run(req) has returned for request r: handler h left o behind
Stage(r, h, o) ==
    /\ req[r].pc = "handler"
    /\ o.jti <= MaxJti + 1
    /\ LET handled == [req[r] EXCEPT !.handler = h, !.result = o.result,
                                     !.db_failed = o.db_failed,
                                     !.runs = req[r].runs + 1, !.pc = "return"]
           written == [req EXCEPT ![r] = handled]
       IN req' = [written EXCEPT ![slot_of(r)].slot = o.slot]
    /\ users' = o.users
    /\ refresh_tokens' = o.refresh_tokens
    /\ nextJti' = o.jti
    /\ known' = known \cup o.body_tokens
    /\ UNCHANGED <<clock, advances, rotated, oauthVars>>

StageLogin(r) ==
    \E h \in LoginCalls, d1 \in BOOLEAN, d2 \in BOOLEAN :
        Stage(r, h, login(SeenSlot(r, h), users, refresh_tokens, clock, nextJti, d1, d2))

StageLogout(r) ==
    \E d \in BOOLEAN :
        Stage(r, Call("logout"),
              logout(SeenSlot(r, Call("logout")), users, refresh_tokens, clock, nextJti, d))

StageGetCurrentUser(r) ==
    \E d \in BOOLEAN :
        Stage(r, Call("get_current_user"),
              get_current_user(SeenSlot(r, Call("get_current_user")), users,
                               refresh_tokens, clock, nextJti, d))

\* lines 45-65: the middleware takes what its slot holds and answers
Return(r) ==
    /\ req[r].pc = "return"
    /\ LET after == [req[r] EXCEPT !.slot = req[slot_of(r)].slot]
           answered == [after EXCEPT !.pc = "done", !.slot = {}, !.action = after.slot,
                                     !.returned = after.result,
                                     !.cookies = response_cookies(after)]
           taken == [req EXCEPT ![slot_of(r)].slot = {}]
       IN /\ req' = [taken EXCEPT ![r] = [answered EXCEPT !.slot = taken[r].slot]]
          /\ known' = known \cup CookieTokens(answered.cookies)
    /\ UNCHANGED <<clock, advances, users, refresh_tokens, nextJti, rotated, oauthVars>>

NextSlots ==
    \/ \E r \in Reqs : Arrive(r, {}, {})
    \/ \E r \in Reqs : StageLogin(r)
    \/ \E r \in Reqs : StageLogout(r)
    \/ \E r \in Reqs : StageGetCurrentUser(r)
    \/ \E r \in Reqs : Return(r)
    \/ \E r \in Reqs : Reset(r)

SpecSlots == Init /\ [][NextSlots]_vars

\* action a is what the handler of the answered request r0 staged: logout a
\* Clear, a successful login a Set of tokens of the user it logged in, any
\* other outcome nothing
StagedBy(r0, a) ==
    CASE r0.handler.name = "logout" -> a = {ClearAction}
      [] r0.handler.name = "login" /\ r0.result.status = "Ok" ->
            /\ a # {} /\ The(a).kind = "Set"
            /\ {The(The(a).access).claims.sub} = r0.result.user
            /\ {The(The(a).refresh).claims.sub} = r0.result.user
      [] OTHER -> a = {}

\* C30: under any interleaving of concurrent requests the cookie action the
\* middleware applies to a response is the one staged by the handler of that
\* same request, and answering one request takes nothing from another's slot
C30_SlotPerRequest ==
    [][\A r \in Reqs :
          (req[r].pc = "return" /\ req'[r].pc = "done") =>
             /\ StagedBy(req'[r], req'[r].action)
             /\ req'[r].cookies = StagedPart(req'[r])
             /\ \A q \in Reqs \ {r} : req'[q] = req[q]]_vars

\* a login and a logout are in flight together, each with its own staged
\* action, and the logout is answered first with its Clear
C30_TwoStagedAtOnce ==
    \E r, q \in Reqs :
        /\ r # q
        /\ req[r].pc = "return" /\ req[r].handler.name = "login"
        /\ req[r].slot # {} /\ The(req[r].slot).kind = "Set"
        /\ req[q].pc = "done" /\ req[q].handler.name = "logout"
        /\ req[q].action = {ClearAction}

====
